---- MODULE Spec2Model ----
(***************************************************************************)
(* git-commitai: the commit-message generation engine                      *)
(* (BaseAIManager.generateCommitMessage), and the commit flow with its     *)
(* provider fallback (promptCommitMessage) over the persisted              *)
(* configuration (ConfigManager).                                          *)
(*                                                                         *)
(* Strings are sequences of one-character strings, so that trim,           *)
(* startsWith, the regular expression and includes are computed.           *)
(***************************************************************************)
EXTENDS Integers, Sequences, FiniteSets, TLC

VARIABLES
  config,            \* the persisted configuration record (config file)
  cli,               \* mainFunc outside promptCommitMessage: position, locals
  prefix,            \* promptCommitMessage's prefix argument
  skipConfirmation,  \* promptCommitMessage's skipConfirmation argument
  pc,                \* where the process is
  previousMessages,  \* running promptCommitMessage call: previousMessages
  triedProviders,    \* running promptCommitMessage call: triedProviders
  stack,             \* the suspended callers of the running call, innermost last
  provider,          \* provider of the AIManager of the running call
  attempts,          \* generateCommitMessage: loop counter
  prevMessage,       \* generateCommitMessage: prevMessage
  suggestedMsg,      \* promptCommitMessage: suggestedMsg
  exitCode,          \* process exit code, NoExit while running
  surfaced,          \* the text printed by console.error, <<>> when none
  commits,           \* the messages GitManager.commit was executed with
  gen,               \* observation: the generateCommitMessage call in progress
  lastGen,           \* observation: the generateCommitMessage call finished last
  caught,            \* observation: the failure that left the try block last
  git,               \* the getStagedChanges call of the running call
  obs                \* observation: counters over the invocation and the cascade

vars == <<config, cli, prefix, skipConfirmation, pc, previousMessages, triedProviders,
          stack, provider, attempts, prevMessage, suggestedMsg, exitCode,
          surfaced, commits, gen, lastGen, caught, git, obs>>

----------------------------------------------------------------------------
(* Strings *)

startsWith(s, p) ==
  /\ Len(p) <= Len(s)
  /\ \A i \in 1..Len(p) : s[i] = p[i]

\* String.prototype.includes
includes(s, sub) ==
  \E k \in 0..(Len(s) - Len(sub)) : \A i \in 1..Len(sub) : s[k + i] = sub[i]

WhiteSpace == {" ", "\n", "\t", "\r"}

RECURSIVE trimStart(_)
trimStart(s) ==
  IF s # <<>> /\ Head(s) \in WhiteSpace THEN trimStart(Tail(s)) ELSE s

RECURSIVE trimEnd(_)
trimEnd(s) ==
  IF s # <<>> /\ s[Len(s)] \in WhiteSpace
    THEN trimEnd(SubSeq(s, 1, Len(s) - 1))
    ELSE s

\* String.prototype.trim
trim(s) == trimEnd(trimStart(s))

UpperCase == <<"A","B","C","D","E","F","G","H","I","J","K","L","M",
               "N","O","P","Q","R","S","T","U","V","W","X","Y","Z">>
LowerCase == <<"a","b","c","d","e","f","g","h","i","j","k","l","m",
               "n","o","p","q","r","s","t","u","v","w","x","y","z">>

lowerChar(c) ==
  IF \E i \in 1..Len(UpperCase) : UpperCase[i] = c
    THEN LowerCase[CHOOSE i \in 1..Len(UpperCase) : UpperCase[i] = c]
    ELSE c

\* String.prototype.toLowerCase
toLowerCase(s) == [i \in 1..Len(s) |-> lowerChar(s[i])]

----------------------------------------------------------------------------
(* Errors: an Error object has a name and a message; any other thrown      *)
(* value has only its string form.                                         *)

Err(isError, name, message, text) ==
  [isError |-> isError, name |-> name, message |-> message, text |-> text]

Error(name, message) == Err(TRUE, name, message, <<>>)
Thrown(text) == Err(FALSE, <<>>, <<>>, text)

AIError(message) == Error(<<"A","I","E","r","r","o","r">>, message)
GitError(message) == Error(<<"G","i","t","E","r","r","o","r">>, message)

\* Error.prototype.toString, String(value)
toString(e) ==
  IF e.isError
    THEN IF e.message = <<>> THEN e.name ELSE e.name \o <<":"," ">> \o e.message
    ELSE e.text

FailedToGenerate == <<"F","a","i","l","e","d"," ","t","o"," ","g","e","n","e","r","a","t","e"," ","c","o","m","m","i","t"," ","m","e","s","s","a","g","e">>

----------------------------------------------------------------------------
(* BaseAIManager *)

MAX_ATTEMPTS == 3

\* an optional string argument
Str(text) == [text |-> text, defined |-> TRUE]
Undefined == [text |-> <<>>, defined |-> FALSE]

definedOnly(p) == p.defined

\* if (prefix): undefined and '' are falsy
truthy(p) == p.defined /\ p.text # <<>>

ConventionalTypes ==
  << <<"f","e","a","t">>, <<"f","i","x">>, <<"d","o","c","s">>, <<"s","t","y","l","e">>,
     <<"r","e","f","a","c","t","o","r">>, <<"p","e","r","f">>, <<"t","e","s","t">>, <<"c","h","o","r","e">> >>

\* the regular expression matched character by character at position `at`
RECURSIVE matchLiteral(_, _, _)
matchLiteral(s, lit, at) ==
  IF lit = <<>> THEN TRUE
  ELSE IF at > Len(s) THEN FALSE
  ELSE IF s[at] # Head(lit) THEN FALSE
  ELSE matchLiteral(s, Tail(lit), at + 1)

conventionalCaseInsensitive(message) ==
  \E i \in 1..Len(ConventionalTypes) :
    matchLiteral(toLowerCase(message), ConventionalTypes[i], 1)

\* /^(feat|fix|docs|style|refactor|perf|test|chore)/.test(message)
conventionalRegexTest(message) ==
  \E i \in 1..Len(ConventionalTypes) : matchLiteral(message, ConventionalTypes[i], 1)

prefixOrConventional(message, p) ==
  \/ truthy(p) /\ startsWith(message, p.text)
  \/ conventionalRegexTest(message)

prefixAndConventional(message, p) ==
  /\ truthy(p) => startsWith(message, p.text)
  /\ conventionalRegexTest(message)

\* the validation of a candidate
isValidMessage(message, p) ==
  IF truthy(p)
    THEN startsWith(message, p.text)
    ELSE conventionalRegexTest(message)

neverReturns(message, prev, att) == [message |-> message, shouldReturn |-> FALSE]

onlyOnLastAttempt(message, prev, att) ==
  [message |-> message, shouldReturn |-> att = MAX_ATTEMPTS - 1]

processValidMessage(message, prev, att) ==
  IF message # prev THEN [message |-> message, shouldReturn |-> TRUE]
  ELSE IF att = MAX_ATTEMPTS - 1 THEN [message |-> message, shouldReturn |-> TRUE]
  ELSE [message |-> message, shouldReturn |-> FALSE]

loopOneMore(att) == att <= MAX_ATTEMPTS

\* the for loop's condition
loopCondition(att) == att < MAX_ATTEMPTS

alwaysFixedText(error) == AIError(FailedToGenerate)

\* catch (error) { throw new AIError(...) }
wrapError(error) ==
  AIError(IF error.isError THEN error.message ELSE FailedToGenerate)

\* what makeRequest gives: a response with string content, a response that
\* is missing or whose content is no string, or a rejection
Content(text) == [error |-> Thrown(<<>>), kind |-> "content", content |-> text]
Malformed == [error |-> Thrown(<<>>), kind |-> "malformed", content |-> <<>>]
Failure(error) == [error |-> error, kind |-> "failure", content |-> <<>>]

StepContinue(message) ==
  [message |-> message, error |-> Thrown(<<>>), kind |-> "continue"]
StepReturn(message) ==
  [message |-> message, error |-> Thrown(<<>>), kind |-> "return"]
StepThrow(error) ==
  [message |-> <<>>, error |-> error, kind |-> "throw"]

lastCandidateReturned(message, att) ==
  IF loopCondition(att + 1) THEN StepContinue(message) ELSE StepReturn(message)

\* the end of an iteration that did not return: attempts++, then the loop
\* condition, then the safeguard throw after the loop
nextIteration(message, att) ==
  IF loopCondition(att + 1)
    THEN StepContinue(message)
    ELSE StepThrow(AIError(FailedToGenerate))

\* one iteration of generateCommitMessage from the resolution of makeRequest
generateStep(outcome, p, prev, att) ==
  IF outcome.kind = "failure" THEN StepThrow(wrapError(outcome.error))
  ELSE IF outcome.kind = "malformed"
    THEN StepThrow(wrapError(AIError(FailedToGenerate)))
  ELSE
    LET message == trim(outcome.content) IN
      IF ~isValidMessage(message, p) THEN nextIteration(message, att)
      ELSE
        LET processResult == processValidMessage(message, prev, att) IN
          IF processResult.shouldReturn
            THEN StepReturn(processResult.message)
            ELSE nextIteration(message, att)

\* the prompt of a request: a text is the sequence of its parts, the
\* previous messages are the lines that join('\n') puts one after another
\* and the changes are the text that was passed in
promptText(p, previous) ==
  [start |-> "Please suggest a git commit message following Conventional Commits format. The message MUST be a single line only.",
   instruction |-> IF truthy(p)
                     THEN " The message MUST start with: "
                     ELSE " The message MUST start with one of these types: feat, fix, docs, style, refactor, perf, test, or chore. Always include a scope in parentheses (e.g., 'feat(auth)', 'fix(api)'). Use filenames, components, or affected areas as scope identifiers.",
   required |-> IF truthy(p) THEN p.text ELSE <<>>,
   rules |-> " Use imperative mood and keep it concise. The description part MUST start with lowercase letters.\nExample format:\ntype(scope): add feature (not 'Add feature')\n\nImportant: reply with ONLY the commit message as a single line. No additional text, explanations, or multi-line commits.",
   different |-> IF Len(previous) > 0
                   THEN "\n\nPlease generate a message different from the following previous messages:\n"
                   ELSE "",
   joined |-> previous]

\* `${promptText}\n\nChanges:\n${changes}`
fullPrompt(changesText, p, previous) ==
  [promptText |-> promptText(p, previous), changesText |-> changesText]

namingPrevious(changesText, p, previous, prev, att) ==
  [content |-> fullPrompt(changesText, p,
                          IF att = 0 THEN previous ELSE Append(previous, prev)),
   role |-> "user"]

\* the message of the request that the iteration `att` of the loop builds,
\* with prevMessage at hand
requestMessage(changesText, p, previous, prev, att) ==
  [content |-> fullPrompt(changesText, p, previous), role |-> "user"]

\* console.log(text, value): a line of the log
Logged(text, value) == [text |-> text, value |-> value]

\* console.log('Generated message:', message)
GeneratedMessage(message) == Logged(<<"G","e","n","e","r","a","t","e","d"," ","m","e","s","s","a","g","e",":">>, message)

WrongPrefix ==
  Logged(<<"G","e","n","e","r","a","t","e","d"," ","m","e","s","s","a","g","e"," ","d","o","e","s","n","'","t"," ","s","t","a","r","t"," ","w","i","t","h"," ","r","e","q","u","i","r","e","d"," ","p","r","e","f","i","x","."," ","R","e","t","r","y","i","n","g",".",".",".">>, <<>>)

WrongFormat ==
  Logged(<<"G","e","n","e","r","a","t","e","d"," ","m","e","s","s","a","g","e"," ","d","o","e","s","n","'","t"," ","f","o","l","l","o","w"," ","C","o","n","v","e","n","t","i","o","n","a","l"," ","C","o","m","m","i","t","s"," ","f","o","r","m","a","t","."," ","R","e","t","r","y","i","n","g",".",".",".">>, <<>>)

SameAsPrevious ==
  Logged(<<"G","e","n","e","r","a","t","e","d"," ","m","e","s","s","a","g","e"," ","i","s"," ","t","h","e"," ","s","a","m","e"," ","a","s"," ","p","r","e","v","i","o","u","s","."," ","R","e","t","r","y","i","n","g",".",".",".">>, <<>>)

alwaysWrongFormat(message, p) == <<GeneratedMessage(message), WrongFormat>>

\* the lines logged for a candidate that fails the validation
invalidLog(message, p) ==
  <<GeneratedMessage(message), IF truthy(p) THEN WrongPrefix ELSE WrongFormat>>

handleSameMessageRetry(message) == <<GeneratedMessage(message), SameAsPrevious>>

\* the lines that one iteration of generateCommitMessage logs
stepLog(outcome, p, prev, att) ==
  IF outcome.kind # "content" THEN <<>>
  ELSE
    LET message == trim(outcome.content) IN
      IF ~isValidMessage(message, p) THEN invalidLog(message, p)
      ELSE IF processValidMessage(message, prev, att).shouldReturn THEN <<>>
      ELSE handleSameMessageRetry(message)

\* the number of lines of a log that are among the given ones
linesAmong(log, lines) == Cardinality({ i \in 1..Len(log) : log[i] \in lines })

----------------------------------------------------------------------------
(* ConfigManager: the configuration file holds the API keys in the order   *)
(* in which they were stored, and the default provider.                    *)

OPENAI == "openai"
GOOGLE == "google"
ANTHROPIC == "anthropic"
ApiProvider == {OPENAI, GOOGLE, ANTHROPIC}

NoProvider == "undefined"
NoKey == ""

\* this.config.apiKeys[provider]
storedKey(cfg, p) ==
  IF \E i \in 1..Len(cfg.apiKeys) : cfg.apiKeys[i].provider = p
    THEN cfg.apiKeys[CHOOSE i \in 1..Len(cfg.apiKeys) : cfg.apiKeys[i].provider = p].key
    ELSE NoKey

getDefaultProvider(cfg) ==
  IF cfg.defaultProvider = NoProvider THEN OPENAI ELSE cfg.defaultProvider

getApiKey(cfg, p) == storedKey(cfg, p)

setDefaultProvider(cfg, p) == [cfg EXCEPT !.defaultProvider = p]

RECURSIVE filterKeys(_)
filterKeys(entries) ==
  IF entries = <<>> THEN <<>>
  ELSE IF Head(entries).key # NoKey
    THEN <<Head(entries).provider>> \o filterKeys(Tail(entries))
    ELSE filterKeys(Tail(entries))

\* Object.entries(apiKeys).filter(([, key]) => !!key).map(([provider]) => provider)
getAvailableProviders(cfg) == filterKeys(cfg.apiKeys)

\* lastDeclinedUpdateVersion is undefined
NoVersion == <<"undefined">>

\* this.config.apiKeys[provider] = key: a new property comes last
withKey(entries, p, key) ==
  IF \E i \in 1..Len(entries) : entries[i].provider = p
    THEN [i \in 1..Len(entries) |->
            IF entries[i].provider = p
              THEN [provider |-> p, key |-> key] ELSE entries[i]]
    ELSE Append(entries, [provider |-> p, key |-> key])

madeDefault(cfg, p) == [cfg EXCEPT !.defaultProvider = p]

setDefaultProviderIfNeeded(cfg, p) ==
  IF cfg.defaultProvider = NoProvider
    THEN [cfg EXCEPT !.defaultProvider = p] ELSE cfg

saveApiKey(cfg, key, p) ==
  setDefaultProviderIfNeeded([cfg EXCEPT !.apiKeys = withKey(@, p, key)], p)

getLastDeclinedUpdateVersion(cfg) == cfg.lastDeclinedUpdateVersion

setLastDeclinedUpdateVersion(cfg, version) ==
  [cfg EXCEPT !.lastDeclinedUpdateVersion = version]

----------------------------------------------------------------------------
(* GitManager.getStagedChanges: a text is the sequence of its lines, the    *)
(* rendered changes are the sequence of their sections.                    *)

MAX_CHANGES_PER_FILE == 1000
MAX_TOTAL_CHANGES == 10000

\* output.toString().trim().split('\n'): the empty output gives ['']
splitLines(output) == IF output = <<>> THEN << <<>> >> ELSE output

onlyEmptyList(files) == Len(files) = 0

\* files.length === 0 || (files.length === 1 && files[0] === '')
noStagedChanges(files) ==
  Len(files) = 0 \/ (Len(files) = 1 /\ files[1] = <<>>)

\* Array.prototype.indexOf, from 0
indexOf(files, file) ==
  (CHOOSE i \in 1..Len(files) :
     files[i] = file /\ \A j \in 1..(i - 1) : files[j] # file) - 1

Section(kind, file, count, body) ==
  [kind |-> kind, file |-> file, count |-> count, body |-> body]

\* `[File: ${file}]\n${fileChanges}\n\n`
FileSection(file, fileChanges) == Section("file", file, 0, fileChanges)

\* `[File: ${file} - Too many changes to display (${changeCount} lines)]\n`
TooManySection(file, changeCount) == Section("tooManyChanges", file, changeCount, <<>>)

\* `\n[${remainingFiles} more files not shown due to size constraints]\n`
MoreFilesSection(remainingFiles) == Section("moreFiles", <<>>, remainingFiles, <<>>)

\* `[${truncatedFiles} file(s) exceeded maximum line count and were truncated]\n\n`
SummarySection(truncatedFiles) == Section("summary", <<>>, truncatedFiles, <<>>)

\* no getStagedChanges call
NoGit ==
  [files |-> <<>>, truncatedFiles |-> 0, phase |-> "idle", index |-> 0,
   allChanges |-> <<>>, totalChangeCount |-> 0, fetched |-> <<>>,
   sizes |-> <<>>, reads |-> <<>>]

\* getStagedChanges before its first read
GitStart == [NoGit EXCEPT !.phase = "list"]

\* the staged files were listed
listed(g, output) ==
  LET files == splitLines(output) IN
    [g EXCEPT !.files = files,
              !.index = 1,
              !.phase = IF noStagedChanges(files) THEN "noStagedChanges" ELSE "diff"]

perFileAtLeast(changeCount) == changeCount >= MAX_CHANGES_PER_FILE

\* changeCount > this.MAX_CHANGES_PER_FILE
perFileExceeded(changeCount) == changeCount > MAX_CHANGES_PER_FILE

totalNever(totalChangeCount) == FALSE

totalAtLeast(totalChangeCount) == totalChangeCount >= MAX_TOTAL_CHANGES

\* totalChangeCount > this.MAX_TOTAL_CHANGES
totalExceeded(totalChangeCount) == totalChangeCount > MAX_TOTAL_CHANGES

remainingFromIndex(files, file) == Len(files) - indexOf(files, file)

\* files.length - (files.indexOf(file) + 1)
remainingAfter(files, file) == Len(files) - (indexOf(files, file) + 1)

\* one iteration of the loop over the files, from the diff of the file
diffed(g, fileChanges) ==
  LET file == g.files[g.index]
      changeCount == Len(fileChanges)
      total == g.totalChangeCount + changeCount
      section == IF perFileExceeded(changeCount)
                   THEN TooManySection(file, changeCount)
                   ELSE FileSection(file, fileChanges)
      remainingFiles == remainingAfter(g.files, file)
      break == totalExceeded(total) /\ remainingFiles > 0
      last == break \/ g.index = Len(g.files)
  IN  [g EXCEPT
         !.totalChangeCount = total,
         !.truncatedFiles = IF perFileExceeded(changeCount) THEN @ + 1 ELSE @,
         !.allChanges = IF break
                          THEN @ \o <<section, MoreFilesSection(remainingFiles)>>
                          ELSE Append(@, section),
         !.fetched = Append(@, file),
         !.index = IF last THEN @ ELSE @ + 1,
         !.phase = IF last THEN "done" ELSE "diff"]

summaryAlways(g) ==
  [g EXCEPT !.allChanges = <<SummarySection(g.truncatedFiles)>> \o @]

\* after the loop: the summary goes before the sections when files were
\* truncated
withSummary(g) ==
  IF g.truncatedFiles > 0
    THEN [g EXCEPT !.allChanges = <<SummarySection(g.truncatedFiles)>> \o @]
    ELSE g

\* execSync(`git diff --cached -- "${file}"`): what was asked and what
\* was answered
DiffOf(file, fileChanges) == [file |-> file, fileChanges |-> fileChanges]

\* the read of one diff, up to the next read or to the return; sizes
\* keeps the number of lines of each diff that was read, reads the diff
\* that git gave for each file
nextRead(g, fileChanges) ==
  LET after == diffed([g EXCEPT
                         !.sizes = Append(@, Len(fileChanges)),
                         !.reads = Append(@, DiffOf(g.files[g.index],
                                                    fileChanges))],
                      fileChanges)
  IN  IF after.phase = "done" THEN withSummary(after) ELSE after

processedOnly(g) == [files |-> g.fetched, allChanges |-> g.allChanges]

\* `Files changed:\n${files.join('\n')}\n\nChanges:\n${allChanges}`
changes(g) == [files |-> g.files, allChanges |-> g.allChanges]

----------------------------------------------------------------------------
(* commands.ts: classification of a caught error *)

isRateLimitError(error) ==
  IF ~error.isError /\ error.text = <<>> THEN FALSE
  ELSE
    LET errorStr == toLowerCase(toString(error))
        errorMsg == IF error.message # <<>> THEN toLowerCase(error.message) ELSE <<>>
    IN  \/ includes(errorStr, <<"r","a","t","e"," ","l","i","m","i","t">>)
        \/ includes(errorStr, <<"t","o","o"," ","m","a","n","y"," ","r","e","q","u","e","s","t","s">>)
        \/ includes(errorStr, <<"4","2","9">>)
        \/ includes(errorMsg, <<"r","a","t","e"," ","l","i","m","i","t">>)
        \/ includes(errorMsg, <<"t","o","o"," ","m","a","n","y"," ","r","e","q","u","e","s","t","s">>)
        \/ includes(errorMsg, <<"4","2","9">>)
        \/ includes(errorMsg, <<"q","u","o","t","a">>)

neverCancellation(error) == FALSE

\* the test for a user cancellation (Ctrl+C)
isCancellation(error) ==
  /\ error.isError
  /\ \/ error.name = <<"E","x","i","t","P","r","o","m","p","t","E","r","r","o","r">>
     \/ includes(error.message, <<"S","I","G","I","N","T">>)
     \/ includes(error.message, <<"f","o","r","c","e","_","c","l","o","s","e","d">>)

contains(seq, x) == \E i \in 1..Len(seq) : seq[i] = x

triedWithoutCurrent(tried, currentProvider) == tried

\* [...triedProviders, currentProvider]
newTriedProviders(tried, currentProvider) == Append(tried, currentProvider)

onlyFirstAvailable(available, newTried) ==
  IF available # <<>> /\ ~contains(newTried, available[1])
    THEN available[1] ELSE NoProvider

\* availableProviders.find((p) => !newTriedProviders.includes(p))
nextProvider(available, newTried) ==
  IF \E i \in 1..Len(available) : ~contains(newTried, available[i])
    THEN available[CHOOSE i \in 1..Len(available) :
                     /\ ~contains(newTried, available[i])
                     /\ \A j \in 1..(i - 1) : contains(newTried, available[j])]
    ELSE NoProvider

oldestThree(previous, msg) ==
  LET all == Append(previous, msg) IN
    IF Len(all) <= 3 THEN all ELSE SubSeq(all, 1, 3)

\* [...previousMessages, suggestedMsg].slice(-3)
newPreviousMessages(previous, msg) ==
  LET all == Append(previous, msg) IN
    IF Len(all) <= 3 THEN all ELSE SubSeq(all, Len(all) - 2, Len(all))

ExhaustedMsg ==
  <<"R","a","t","e"," ","l","i","m","i","t"," ","r","e","a","c","h","e","d"," ","f","o","r"," ","a","l","l"," ","a","v","a","i","l","a","b","l","e"," ","p","r","o","v","i","d","e","r","s","."," ","P","l","e","a","s","e"," ","t","r","y"," ","a","g","a","i","n"," ","l","a","t","e","r",".">>

----------------------------------------------------------------------------
(* Bounds and inputs *)

\* the number of times the user may reject a suggested message
MaxRejections == 1

\* the same, where only the history of the rejected messages is followed
MaxHistoryRejections == 5

NoExit == -1

\* what the backend may answer to one request
Contents == { <<"f","e","a","t",":"," ","a">>, <<" ","f","i","x",":"," ","b","\n">>, <<"W","I","P",":"," ","c">>, <<"F","e","a","t",":"," ","a">> }

\* the answers tried against generateCommitMessage alone
EngineContents ==
  { <<"f","e","a","t",":"," ","a">>, <<"f","i","x",":"," ","a">>, <<"d","o","c","s",":"," ","a">>, <<"s","t","y","l","e",":"," ","a">>, <<"r","e","f","a","c","t","o","r",":"," ","a">>,
    <<"p","e","r","f",":"," ","a">>, <<"t","e","s","t",":"," ","a">>, <<"c","h","o","r","e",":"," ","a">>,
    <<" ","f","i","x",":"," ","b","\n">>, <<"\t","f","e","a","t","(","x",")",":"," ","b"," ">>, <<"f","i","x","u","p">>, <<"f","e","a","t">>,
    <<"f","e","a">>, <<"F","e","a","t",":"," ","a">>, <<"F","I","X",":"," ","a">>, <<"a"," ","f","e","a","t",":"," ","b">>, <<"W","I","P",":"," ","c">>,
    <<"W","I","P">>, <<"w","i","p",":"," ","c">>, <<"s"," ","t","y","l","e">>, <<>>, <<" "," ">> }

RateLimited == Error(<<"E","r","r","o","r">>, <<"4","2","9"," ","T","o","o"," ","M","a","n","y"," ","R","e","q","u","e","s","t","s">>)
TimedOut == Error(<<"E","r","r","o","r">>, <<"R","e","q","u","e","s","t"," ","t","i","m","e","d"," ","o","u","t">>)

BackendErrors == { RateLimited, TimedOut, Thrown(<<"s","t","r","i","n","g"," ","e","r","r","o","r">>) }

Prefixes == { Str(<<>>), Str(<<"W","I","P">>) }

EnginePrefixes ==
  { Undefined, Str(<<>>), Str(<<"f","e","a","t">>), Str(<<"f","e">>), Str(<<"W","I","P">>),
    Str(<<"w","i","p">>), Str(<<"f","i","x",":"," ","b">>), Str(<<" ","f","i","x">>) }

\* the paths of staged files, as listed by git diff --cached --name-only
Outputs == { <<<<"c","o","d","e",".","t","s">>, <<"i","m","a","g","e",".","p","n","g">>>> }

\* the diffs of a staged file
Diffs == { <<"+line">> }

\* failures of execSync, and a value that is no Error
RawFailures == { Error(<<"E","r","r","o","r">>, <<"C","o","m","m","a","n","d"," ","f","a","i","l","e","d",":"," ","g","i","t">>), Thrown(<<"b","o","o","m">>) }

Entry(p, k) == [provider |-> p, key |-> k]

\* the API keys of a configuration file, in the order in which they were
\* stored; a key may be stored empty
KeyRecords ==
  { <<Entry(OPENAI, "sk")>>,
    <<Entry(GOOGLE, "sk"), Entry(OPENAI, "sk")>>,
    <<Entry(ANTHROPIC, "sk"), Entry(GOOGLE, NoKey)>>,
    <<Entry(OPENAI, "sk"), Entry(GOOGLE, "sk"), Entry(ANTHROPIC, "sk")>>,
    <<Entry(ANTHROPIC, "sk"), Entry(OPENAI, "sk"), Entry(GOOGLE, "sk")>>,
    <<Entry(GOOGLE, "sk"), Entry(OPENAI, NoKey), Entry(ANTHROPIC, "sk")>> }

Configs ==
  { [apiKeys |-> ks, defaultProvider |-> d] :
      ks \in KeyRecords, d \in ApiProvider \cup {NoProvider} }

NoOutcome == [error |-> Thrown(<<>>), kind |-> "none", content |-> <<>>]

\* no generateCommitMessage call
NoGen ==
  [provider |-> NoProvider, message |-> <<>>, error |-> Thrown(<<>>),
   last |-> NoOutcome, requests |-> 0, allSame |-> TRUE,
   invalid |-> 0, lastValid |-> FALSE, result |-> "none",
   logged |-> <<>>, diagnostics |-> 0, same |-> 0, sent |-> {}]

\* nothing was caught
NoCaught ==
  [error |-> Thrown(<<>>), kind |-> "none", site |-> "none",
   raw |-> Thrown(<<>>), stdout |-> <<>>, stderr |-> <<>>]

----------------------------------------------------------------------------
(* The command line: GitManager.processCommitArgs and mainFunc *)

HELP == << <<"h","e","l","p">>, <<"-","-","h","e","l","p">>, <<"-","h">> >>
SETTINGS == << <<"s","e","t","t","i","n","g","s">>, <<"c","o","n","f","i","g">> >>
VERSION == << <<"-","v">>, <<"-","-","v","e","r","s","i","o","n">> >>

ALL_COMMAND_KEYWORDS == HELP \o SETTINGS

onlyShortYes(arg) == arg = <<"-","y">>

\* arg === '-y' || arg === '--yes'
isYes(arg) == arg = <<"-","y">> \/ arg = <<"-","-","y","e","s">>

\* arg === '-m' || arg === '--message'
takesValue(arg) == arg = <<"-","m">> \/ arg = <<"-","-","m","e","s","s","a","g","e">>

onlyLongMessage(arg) == startsWith(arg, <<"-","-","m","e","s","s","a","g","e","=">>)

\* arg.startsWith('-m') || arg.startsWith('--message=')
isMessageOption(arg) ==
  startsWith(arg, <<"-","m">>) \/ startsWith(arg, <<"-","-","m","e","s","s","a","g","e","=">>)

anyNonOption(st, arg) == ~startsWith(arg, <<"-">>)

\* !prefix && !arg.startsWith('-')
isPrefix(st, arg) == st.prefix = <<>> /\ ~startsWith(arg, <<"-">>)

\* the locals of processCommitArgs before the loop
NoArgs ==
  [prefix |-> <<>>, skipConfirmation |-> FALSE, processedArgs |-> <<>>,
   skipNext |-> FALSE]

\* one iteration of the loop of processCommitArgs
processArg(st, arg) ==
  IF st.skipNext THEN [st EXCEPT !.skipNext = FALSE]
  ELSE IF isYes(arg) THEN [st EXCEPT !.skipConfirmation = TRUE]
  ELSE IF takesValue(arg) THEN [st EXCEPT !.skipNext = TRUE]
  ELSE IF ~isMessageOption(arg) THEN
    IF contains(ALL_COMMAND_KEYWORDS, arg)
      THEN [st EXCEPT !.processedArgs = Append(@, arg)]
    ELSE IF isPrefix(st, arg) THEN [st EXCEPT !.prefix = arg]
    ELSE [st EXCEPT !.processedArgs = Append(@, arg)]
  ELSE st

RECURSIVE processArgs(_, _)
processArgs(st, args) ==
  IF args = <<>> THEN st ELSE processArgs(processArg(st, Head(args)), Tail(args))

processCommitArgs(args) ==
  LET st == processArgs(NoArgs, args) IN
    [prefix |-> st.prefix, skipConfirmation |-> st.skipConfirmation,
     args |-> st.processedArgs]

\* KEYWORDS.some((keyword) => args.includes(keyword))
someIncluded(keywords, args) ==
  \E i \in 1..Len(keywords) : contains(args, keywords[i])

\* hasAnyApiKey
hasAnyApiKey(cfg) == \E i \in 1..Len(cfg.apiKeys) : cfg.apiKeys[i].key # NoKey

\* mainFunc was not started
NoCli ==
  [prefix |-> <<>>, skipConfirmation |-> FALSE, phase |-> "idle", args |-> <<>>,
   commandArgs |-> <<>>, did |-> <<>>,
   call |-> [provider |-> NoProvider, key |-> NoKey, op |-> "none"],
   update |-> [currentVersion |-> <<>>, published |-> 0, latestVersion |-> <<>>,
               shown |-> FALSE, invocations |-> 0, declined |-> {}]]

\* mainFunc up to its first wait, in the order of an earlier version:
\* the arguments are processed before the keywords are looked for
processedFirst(c) ==
  LET r == processCommitArgs(c.args)
      processed == [c EXCEPT !.prefix = r.prefix, !.commandArgs = r.args,
                             !.skipConfirmation = r.skipConfirmation,
                             !.did = <<"processCommitArgs">>]
  IN  IF someIncluded(HELP, r.args)
        THEN [processed EXCEPT !.phase = "returned", !.did = Append(@, "showHelp")]
      ELSE IF someIncluded(VERSION, r.args)
        THEN [processed EXCEPT !.phase = "returned", !.did = Append(@, "showVersion")]
      ELSE IF someIncluded(SETTINGS, r.args)
        THEN [processed EXCEPT !.phase = "returned", !.did = Append(@, "showSettings")]
      ELSE [processed EXCEPT !.phase = "checkForUpdates",
                             !.did = Append(@, "checkForUpdates")]

\* mainFunc up to its first wait, or to its return
mainStart(c) ==
  IF someIncluded(HELP, c.args)
    THEN [c EXCEPT !.phase = "returned", !.did = <<"showHelp">>]
  ELSE IF someIncluded(VERSION, c.args)
    THEN [c EXCEPT !.phase = "returned", !.did = <<"showVersion">>]
  ELSE
    LET r == processCommitArgs(c.args)
        processed == [c EXCEPT !.prefix = r.prefix, !.commandArgs = r.args,
                               !.skipConfirmation = r.skipConfirmation,
                               !.did = <<"processCommitArgs">>]
    IN  IF someIncluded(SETTINGS, r.args)
          THEN [processed EXCEPT !.phase = "returned",
                                 !.did = Append(@, "showSettings")]
          ELSE [processed EXCEPT !.phase = "checkForUpdates",
                                 !.did = Append(@, "checkForUpdates")]

\* mainFunc after checkForUpdates: the configuration is read
mainSetup(c, cfg) ==
  LET read == [c EXCEPT !.did = Append(@, "ConfigManager")] IN
    IF ~hasAnyApiKey(cfg)
      THEN [read EXCEPT !.phase = "promptForProvider",
                        !.did = Append(@, "promptForProvider")]
    ELSE IF getApiKey(cfg, getDefaultProvider(cfg)) = NoKey
      THEN [read EXCEPT !.phase = "setupDifferentProvider"]
    ELSE [read EXCEPT !.phase = "promptCommitMessage",
                      !.did = Append(@, "promptCommitMessage")]

----------------------------------------------------------------------------
(* checkForUpdates *)

\* what Number gives for a text that is no number, and for undefined
NaN == -1

Digits == << "0", "1", "2", "3", "4", "5", "6", "7", "8", "9" >>

digit(c) == (CHOOSE d \in 1..10 : Digits[d] = c) - 1

RECURSIVE digitsValue(_, _)
digitsValue(text, value) ==
  IF text = <<>> THEN value
  ELSE digitsValue(Tail(text), 10 * value + digit(Head(text)))

\* Number(text), for texts of digits and texts that are no number
toNumber(text) ==
  IF \A i \in 1..Len(text) : contains(Digits, text[i])
    THEN digitsValue(text, 0) ELSE NaN

\* text.split('.')
RECURSIVE splitDots(_, _)
splitDots(text, part) ==
  IF text = <<>> THEN <<part>>
  ELSE IF Head(text) = "." THEN <<part>> \o splitDots(Tail(text), <<>>)
  ELSE splitDots(Tail(text), Append(part, Head(text)))

\* version.split('.').map(Number)
versionNumbers(version) ==
  LET parts == splitDots(version, <<>>) IN
    [i \in 1..Len(parts) |-> toNumber(parts[i])]

\* numbers[i], undefined past the end
numberAt(numbers, i) == IF i <= Len(numbers) THEN numbers[i] ELSE NaN

\* a > b, false when one of them is NaN or undefined
greater(a, b) == a # NaN /\ b # NaN /\ a > b

RECURSIVE newerFrom(_, _, _)
newerFrom(current, latest, i) ==
  IF i > 3 THEN FALSE
  ELSE IF greater(numberAt(latest, i), numberAt(current, i)) THEN TRUE
  ELSE IF greater(numberAt(current, i), numberAt(latest, i)) THEN FALSE
  ELSE newerFrom(current, latest, i + 1)

isNewerVersion(currentVersion, newVersion) ==
  newerFrom(versionNumbers(currentVersion), versionNumbers(newVersion), 1)

\* getLatestVersion resolved with null
NoLatest == <<"null">>

neverDeclined(cfg, latestVersion) == FALSE

\* declinedVersion === latestVersion
alreadyDeclined(cfg, latestVersion) ==
  getLastDeclinedUpdateVersion(cfg) = latestVersion

\* checkForUpdates after getLatestVersion: is the prompt shown
promptsUpdate(cfg, currentVersion, latestVersion) ==
  /\ latestVersion # NoLatest
  /\ isNewerVersion(currentVersion, latestVersion)
  /\ ~alreadyDeclined(cfg, latestVersion)

----------------------------------------------------------------------------
(* The commit flow *)

\* main(): promptCommitMessage is called when the default provider has a key
InitOver(configs, prefixes) ==
  /\ config \in configs
  /\ getApiKey(config, getDefaultProvider(config)) # NoKey
  /\ prefix \in prefixes
  /\ skipConfirmation \in BOOLEAN
  /\ pc = "main"
  /\ previousMessages = <<>>
  /\ triedProviders = <<>>
  /\ stack = <<>>
  /\ provider = NoProvider
  /\ attempts = 0
  /\ prevMessage = <<>>
  /\ suggestedMsg = <<>>
  /\ exitCode = NoExit
  /\ surfaced = <<>>
  /\ commits = <<>>
  /\ gen = NoGen
  /\ lastGen = NoGen
  /\ caught = NoCaught
  /\ git = NoGit
  /\ cli = NoCli
  /\ obs = [genCount |-> 0,
            flowsBy |-> [p \in ApiProvider |-> 0],
            cascadeFlows |-> 0,
            cascadeRequests |-> 0,
            limited |-> 0,
            rejections |-> 0,
            original |-> getDefaultProvider(config),
            switched |-> FALSE,
            rejected |-> <<>>,
            limitedProviders |-> {}]

Init == InitOver(Configs, Prefixes)

\* the start of a promptCommitMessage call, up to the read of the staged
\* changes
Enter(previous, tried, callers, cfg, o) ==
  LET p == getDefaultProvider(cfg)
      apiKey == getApiKey(cfg, p)
  IN  /\ config' = cfg
      /\ previousMessages' = previous
      /\ triedProviders' = tried
      /\ stack' = callers
      /\ obs' = o
      /\ pc' = IF apiKey = NoKey THEN "setup" ELSE "stagedChanges"
      /\ git' = IF apiKey = NoKey THEN NoGit ELSE GitStart
      /\ provider' = IF apiKey = NoKey THEN provider ELSE p
      /\ UNCHANGED <<exitCode, surfaced>>

exitsZero(code, text, o) ==
  /\ pc' = "exited"
  /\ exitCode' = 0
  /\ surfaced' = text
  /\ obs' = o
  /\ git' = NoGit
  /\ UNCHANGED <<config, previousMessages, triedProviders, stack, provider>>

\* rl.close(); process.exit(code)
Exit(code, text, o) ==
  /\ pc' = "exited"
  /\ exitCode' = code
  /\ surfaced' = text
  /\ obs' = o
  /\ git' = NoGit
  /\ UNCHANGED <<config, previousMessages, triedProviders, stack, provider>>

genericOnly(error) == FailedToGenerate

\* error instanceof Error ? error.message : 'Failed to generate commit message'
errorMsg(error) == IF error.isError THEN error.message ELSE FailedToGenerate

\* which branch of a catch block an error takes
catchKind(error) ==
  IF isCancellation(error) THEN "cancellation"
  ELSE IF isRateLimitError(error) THEN "rateLimit"
  ELSE "other"

\* the catch block of promptCommitMessage
Catch(site, raw, error, o) ==
  /\ caught' = [NoCaught EXCEPT !.site = site, !.raw = raw, !.error = error,
                                !.kind = catchKind(error)]
  /\ IF isCancellation(error) THEN Exit(0, <<>>, o)
     ELSE IF isRateLimitError(error) THEN
       LET currentProvider == getDefaultProvider(config)
           availableProviders == getAvailableProviders(config)
           newTried == newTriedProviders(triedProviders, currentProvider)
           next == nextProvider(availableProviders, newTried)
           switchedCfg == setDefaultProvider(config, next)
       IN  IF next # NoProvider
             THEN Enter(previousMessages, newTried,
                        Append(stack, [site |-> "fallback",
                                       originalProvider |-> currentProvider,
                                       configManager |-> switchedCfg]),
                        switchedCfg, [o EXCEPT !.switched = TRUE])
             ELSE Exit(1, ExhaustedMsg, o)
     ELSE Exit(1, errorMsg(error), o)

Start ==
  /\ pc = "main"
  /\ Enter(<<>>, <<>>, <<>>, config, obs)
  /\ UNCHANGED <<cli, prefix, skipConfirmation, attempts, prevMessage, suggestedMsg,
                 commits, gen, lastGen, caught>>

\* getStagedChanges: the staged files are listed; with none staged,
\* NO_STAGED_CHANGES is returned and the call returns
ListFiles(outputs) ==
  \E output \in outputs :
    /\ pc = "stagedChanges"
    /\ git.phase = "list"
    /\ git' = listed(git, output)
    /\ pc' = IF git'.phase = "noStagedChanges" THEN "returning" ELSE pc
    /\ UNCHANGED <<config, cli, prefix, skipConfirmation, previousMessages,
                   triedProviders, stack, provider, attempts, prevMessage,
                   suggestedMsg, exitCode, surfaced, commits, gen, lastGen,
                   caught, obs>>

\* git diff --cached --name-only prints nothing
NoStagedChanges == ListFiles({<<>>})

StagedFiles == ListFiles(Outputs)

\* one staged file
OneFile == { <<<<"c","o","d","e",".","t","s">>>> }

OneStagedFile == ListFiles(OneFile)

\* getStagedChanges: the diff of a file is read, and another file follows
ReadDiff(diffs) ==
  \E fileChanges \in diffs :
    /\ pc = "stagedChanges"
    /\ git.phase = "diff"
    /\ git' = nextRead(git, fileChanges)
    /\ git'.phase = "diff"
    /\ UNCHANGED <<config, cli, prefix, skipConfirmation, pc, previousMessages,
                   triedProviders, stack, provider, attempts, prevMessage,
                   suggestedMsg, exitCode, surfaced, commits, gen, lastGen,
                   caught, obs>>

DiffFile == ReadDiff(Diffs)

\* getStagedChanges reads its last diff and returns the changes;
\* generateCommitMessage starts and sends its first request
ReadLastDiff(diffs) ==
  \E fileChanges \in diffs :
    /\ git.phase = "diff"
    /\ git' = nextRead(git, fileChanges)
    /\ git'.phase = "done"

ChangesOver(diffs) ==
  /\ pc = "stagedChanges"
  /\ ReadLastDiff(diffs)
  /\ pc' = "awaitResponse"
  /\ attempts' = 0
  /\ prevMessage' = <<>>
  /\ gen' = [NoGen EXCEPT
               !.requests = 1,
               !.provider = provider,
               !.sent = {requestMessage(changes(git'), prefix, previousMessages,
                                        <<>>, 0)}]
  /\ obs' = [obs EXCEPT !.genCount = @ + 1,
                        !.flowsBy[provider] = @ + 1,
                        !.cascadeFlows = @ + 1,
                        !.cascadeRequests = @ + 1]
  /\ lastGen' = NoGen
  /\ UNCHANGED <<config, cli, prefix, skipConfirmation, previousMessages,
                 triedProviders, stack, provider, suggestedMsg, exitCode,
                 surfaced, commits, caught>>

StagedChanges == ChangesOver(Diffs)

\* the catch block of getStagedChanges
alwaysGitError(raw) == GitError(<<"F","a","i","l","e","d"," ","t","o"," ","g","e","t"," ","s","t","a","g","e","d"," ","c","h","a","n","g","e","s">>)

stagedChangesError(raw) ==
  IF raw.isError THEN GitError(<<"F","a","i","l","e","d"," ","t","o"," ","g","e","t"," ","s","t","a","g","e","d"," ","c","h","a","n","g","e","s">>) ELSE raw

StagedChangesFail(raw) ==
  /\ pc = "stagedChanges"
  /\ Catch("stagedChanges", raw, stagedChangesError(raw), obs)
  /\ UNCHANGED <<cli, prefix, skipConfirmation, attempts, prevMessage, suggestedMsg,
                 commits, gen, lastGen>>

alwaysPrompts(skip) == TRUE

\* if (!skipConfirmation): the confirmation prompt is shown
promptsUser(skip) == ~skip

\* the resolution of makeRequest: the rest of the iteration, and what
\* follows it without a wait
Respond(outcome) ==
  LET step == generateStep(outcome, prefix, prevMessage, attempts)
      message == trim(outcome.content)
      log == stepLog(outcome, prefix, prevMessage, attempts)
      seen == [gen EXCEPT
                 !.logged = log,
                 !.diagnostics =
                   @ + linesAmong(log, {WrongPrefix, WrongFormat, SameAsPrevious}),
                 !.same = @ + linesAmong(log, {SameAsPrevious}),
                 !.allSame = gen.allSame /\ (gen.last \in {NoOutcome, outcome}),
                 !.invalid = IF outcome.kind = "content"
                                /\ ~isValidMessage(message, prefix)
                               THEN @ + 1 ELSE @,
                 !.last = outcome,
                 !.lastValid = outcome.kind = "content"
                               /\ isValidMessage(message, prefix)]
      finished == [seen EXCEPT !.result = step.kind, !.message = step.message,
                               !.error = step.error]
  IN  /\ pc = "awaitResponse"
      /\ UNCHANGED <<cli, prefix, skipConfirmation>>
      /\ CASE step.kind = "continue" ->
                /\ attempts' = attempts + 1
                /\ prevMessage' = step.message
                /\ gen' = [seen EXCEPT
                             !.requests = @ + 1,
                             !.sent = @ \cup {requestMessage(changes(git), prefix,
                                                             previousMessages,
                                                             step.message,
                                                             attempts + 1)}]
                /\ obs' = [obs EXCEPT !.cascadeRequests = @ + 1]
                /\ UNCHANGED <<config, pc, previousMessages, triedProviders, stack,
                               provider, suggestedMsg, exitCode, surfaced, commits,
                               lastGen, caught, git>>
           [] step.kind = "return" ->
                /\ suggestedMsg' = step.message
                /\ lastGen' = finished
                /\ gen' = NoGen
                /\ pc' = IF promptsUser(skipConfirmation)
                           THEN "confirm" ELSE "committing"
                /\ commits' = IF promptsUser(skipConfirmation)
                                THEN commits ELSE Append(commits, step.message)
                /\ attempts' = 0
                /\ prevMessage' = <<>>
                /\ git' = NoGit
                /\ UNCHANGED <<config, previousMessages, triedProviders, stack,
                               provider, exitCode, surfaced, caught, obs>>
           [] step.kind = "throw" ->
                /\ lastGen' = finished
                /\ gen' = NoGen
                /\ Catch("generate", outcome.error, step.error,
                         IF isRateLimitError(step.error)
                           THEN [obs EXCEPT
                                   !.limited = @ + 1,
                                   !.limitedProviders = @ \cup {provider}]
                           ELSE obs)
                /\ attempts' = 0
                /\ prevMessage' = <<>>
                /\ UNCHANGED <<suggestedMsg, commits>>

ResponseContent == \E c \in Contents : Respond(Content(c))

EngineResponseContent == \E c \in EngineContents : Respond(Content(c))

ResponseMalformed == Respond(Malformed)

RequestFails == \E e \in BackendErrors : Respond(Failure(e))

\* the user accepts the message: GitManager.commit is executed
ConfirmYes ==
  /\ pc = "confirm"
  /\ pc' = "committing"
  /\ commits' = Append(commits, suggestedMsg)
  /\ UNCHANGED <<config, cli, prefix, skipConfirmation, previousMessages,
                 triedProviders, stack, provider, attempts, prevMessage,
                 suggestedMsg, exitCode, surfaced, gen, lastGen, caught, git, obs>>

\* the user rejects the message: promptCommitMessage calls itself
Reject(bound) ==
  /\ pc = "confirm"
  /\ obs.rejections < bound
  /\ Enter(newPreviousMessages(previousMessages, suggestedMsg), <<>>,
           Append(stack, [site |-> "regenerate",
                          originalProvider |-> NoProvider,
                          configManager |-> config]),
           config,
           [obs EXCEPT !.rejections = @ + 1, !.cascadeFlows = 0,
                       !.cascadeRequests = 0, !.limited = 0,
                       !.rejected = Append(@, suggestedMsg)])
  /\ lastGen' = NoGen
  /\ UNCHANGED <<cli, prefix, skipConfirmation, attempts, prevMessage, suggestedMsg,
                 commits, gen, caught>>

ConfirmNo == Reject(MaxRejections)

ExitPromptError ==
  Error(<<"E","x","i","t","P","r","o","m","p","t","E","r","r","o","r">>, <<"U","s","e","r"," ","f","o","r","c","e"," ","c","l","o","s","e","d"," ","t","h","e"," ","p","r","o","m","p","t"," ","w","i","t","h"," ","S","I","G","I","N","T">>)

\* inquirer.prompt rejects
PromptRejects(error) ==
  /\ pc = "confirm"
  /\ Catch("confirm", error, error, obs)
  /\ UNCHANGED <<cli, prefix, skipConfirmation, attempts, prevMessage, suggestedMsg,
                 commits, gen, lastGen>>

\* the user cancels the confirmation prompt
ConfirmCancelled == PromptRejects(ExitPromptError)

CommitThenAsksAgain ==
  /\ pc = "committing"
  /\ pc' = "confirm"
  /\ UNCHANGED <<config, cli, prefix, skipConfirmation, previousMessages,
                 triedProviders, stack, provider, attempts, prevMessage,
                 suggestedMsg, exitCode, surfaced, commits, gen, lastGen, caught, git, obs>>

\* git commit succeeded: rl.close(), and the call returns
CommitSucceeds ==
  /\ pc = "committing"
  /\ pc' = "returning"
  /\ UNCHANGED <<config, cli, prefix, skipConfirmation, previousMessages,
                 triedProviders, stack, provider, attempts, prevMessage,
                 suggestedMsg, exitCode, surfaced, commits, gen, lastGen, caught, git, obs>>

\* the catch block of GitManager.commit
commitError(raw) ==
  GitError(IF raw.isError /\ raw.message # <<>>
             THEN raw.message ELSE <<"F","a","i","l","e","d"," ","t","o"," ","c","o","m","m","i","t"," ","c","h","a","n","g","e","s">>)

\* failed invocations of git commit: what execSync throws, and what git
\* and its hooks wrote to the inherited stdout and stderr
CommitFailures ==
  { [raw |-> raw, stdout |-> <<"A">>, stderr |-> <<"B">>] : raw \in RawFailures }

\* git commit failed: the catch block around GitManager.commit
CommitFails ==
  \E failure \in CommitFailures :
    LET raw == failure.raw
        error == commitError(raw)
    IN
      /\ pc = "committing"
      /\ caught' = [NoCaught EXCEPT !.site = "commit", !.raw = raw,
                                    !.error = error,
                                    !.stdout = failure.stdout,
                                    !.stderr = failure.stderr,
                                    !.kind = IF isCancellation(error)
                                               THEN "cancellation" ELSE "other"]
      /\ IF isCancellation(error)
           THEN Exit(0, <<>>, obs)
           ELSE Exit(1, IF error.isError THEN error.message
                                         ELSE <<"F","a","i","l","e","d"," ","t","o"," ","c","o","m","m","i","t"," ","c","h","a","n","g","e","s">>, obs)
      /\ UNCHANGED <<cli, prefix, skipConfirmation, attempts, prevMessage, suggestedMsg,
                     commits, gen, lastGen>>

\* a call returns to the call that regenerates, which returns in turn
ReturnToRegenerate ==
  /\ pc = "returning"
  /\ stack # <<>>
  /\ stack[Len(stack)].site = "regenerate"
  /\ stack' = SubSeq(stack, 1, Len(stack) - 1)
  /\ UNCHANGED <<config, cli, prefix, skipConfirmation, pc, previousMessages,
                 triedProviders, provider, attempts, prevMessage, suggestedMsg,
                 exitCode, surfaced, commits, gen, lastGen, caught, git, obs>>

\* a call returns to the fallback that retried with it: the original
\* provider is restored
ReturnToFallback ==
  /\ pc = "returning"
  /\ stack # <<>>
  /\ stack[Len(stack)].site = "fallback"
  /\ config' = setDefaultProvider(stack[Len(stack)].configManager,
                                  stack[Len(stack)].originalProvider)
  /\ stack' = SubSeq(stack, 1, Len(stack) - 1)
  /\ UNCHANGED <<cli, prefix, skipConfirmation, pc, previousMessages,
                 triedProviders, provider, attempts, prevMessage, suggestedMsg,
                 exitCode, surfaced, commits, gen, lastGen, caught, git, obs>>

\* the outermost call returns to main: the process ends
MainReturns ==
  /\ pc = "returning"
  /\ stack = <<>>
  /\ pc' = "done"
  /\ exitCode' = 0
  /\ UNCHANGED <<config, cli, prefix, skipConfirmation, previousMessages,
                 triedProviders, stack, provider, attempts, prevMessage,
                 suggestedMsg, surfaced, commits, gen, lastGen, caught, git, obs>>

\* process.on('SIGINT') while the process waits
Sigint ==
  /\ pc \in {"awaitResponse", "confirm"}
  /\ caught' = [NoCaught EXCEPT !.site = "signal", !.kind = "cancellation"]
  /\ Exit(0, <<>>, obs)
  /\ UNCHANGED <<cli, prefix, skipConfirmation, attempts, prevMessage, suggestedMsg,
                 commits, gen, lastGen>>

StagedChangesFails == \E raw \in RawFailures : StagedChangesFail(raw)

Next ==
  \/ Start
  \/ NoStagedChanges
  \/ StagedFiles
  \/ DiffFile
  \/ StagedChanges
  \/ StagedChangesFails
  \/ ResponseContent
  \/ ResponseMalformed
  \/ RequestFails
  \/ ConfirmYes
  \/ ConfirmNo
  \/ ConfirmCancelled
  \/ CommitSucceeds
  \/ CommitFails
  \/ ReturnToRegenerate
  \/ ReturnToFallback
  \/ MainReturns
  \/ Sigint

Spec == Init /\ [][Next]_vars

\* generateCommitMessage alone, over more prefixes and answers
EngineConfig ==
  [apiKeys |-> <<Entry(OPENAI, "sk"), Entry(GOOGLE, "sk")>>,
   defaultProvider |-> NoProvider]

EngineInit == InitOver({EngineConfig}, EnginePrefixes)

EngineNext ==
  \/ Start
  \/ OneStagedFile
  \/ StagedChanges
  \/ EngineResponseContent
  \/ ResponseMalformed
  \/ RequestFails

EngineSpec == EngineInit /\ [][EngineNext]_vars

\* getStagedChanges over more listings and diffs
GitFiles == { <<"c","o","d","e",".","t","s">>, <<"i","m","a","g","e",".","p","n","g">>, <<"M","a","k","e","f","i","l","e">>, <<"n","o","t","e","s",".","t","x","t">> }

GitOutputs ==
  { <<a>> : a \in GitFiles }
  \cup { pair \in GitFiles \X GitFiles : pair[1] # pair[2] }
  \cup { triple \in {<<"c","o","d","e",".","t","s">>, <<"i","m","a","g","e",".","p","n","g">>}
                      \X {<<"M","a","k","e","f","i","l","e">>, <<"n","o","t","e","s",".","t","x","t">>}
                      \X {<<"c","o","d","e",".","t","s">>, <<"i","m","a","g","e",".","p","n","g">>} : triple[1] # triple[3] }

Lines(n) == [i \in 1..n |-> "+line"]

GitDiffs ==
  { <<"-line">>, Lines(1), Lines(1000), Lines(1001), Lines(9000), Lines(10001) }

GitConfig == [apiKeys |-> <<Entry(OPENAI, "sk")>>, defaultProvider |-> OPENAI]

GitInit == InitOver({GitConfig}, {Undefined})

GitStagedFiles == ListFiles(GitOutputs)

GitDiffFile == ReadDiff(GitDiffs)

GitStagedChanges == ChangesOver(GitDiffs)

\* failures of a read: Error objects, and thrown values that are none
GitFailures ==
  { Error(<<"E","r","r","o","r">>, <<"C","o","m","m","a","n","d"," ","f","a","i","l","e","d",":"," ","g","i","t"," ","d","i","f","f"," ","-","-","c","a","c","h","e","d"," ","-","-","n","a","m","e","-","o","n","l","y">>),
    Error(<<"E","r","r","o","r">>, <<>>),
    Error(<<"T","y","p","e","E","r","r","o","r">>, <<"F","a","i","l","e","d"," ","t","o"," ","g","e","t"," ","s","t","a","g","e","d"," ","c","h","a","n","g","e","s">>),
    Thrown(<<"s","t","r","i","n","g"," ","e","r","r","o","r">>),
    Thrown(<<"F","a","i","l","e","d"," ","t","o"," ","g","e","t"," ","s","t","a","g","e","d"," ","c","h","a","n","g","e","s">>) }

GitReadFails == \E raw \in GitFailures : StagedChangesFail(raw)

GitNext ==
  \/ Start
  \/ NoStagedChanges
  \/ GitStagedFiles
  \/ GitDiffFile
  \/ GitStagedChanges
  \/ GitReadFails
  \/ MainReturns

GitSpec == GitInit /\ [][GitNext]_vars

\* the classification of the failures that reach the catch block of
\* promptCommitMessage: values thrown by the reads of getStagedChanges,
\* failures of the backend, rejections of the confirmation prompt
ClassifyTexts ==
  { <<"r","a","t","e"," ","l","i","m","i","t">>, <<"R","a","t","e"," ","L","i","m","i","t"," ","r","e","a","c","h","e","d">>, <<"r","a","t","e","l","i","m","i","t">>,
    <<"H","T","T","P"," ","4","2","9">>, <<"4","2"," ","9">>, <<"T","o","o"," ","M","a","n","y"," ","R","e","q","u","e","s","t","s">>, <<"t","o","o"," ","m","a","n","y"," ","r","e","q","u","e","s","t">>,
    <<"q","u","o","t","a">>, <<"Q","u","o","t","a"," ","e","x","c","e","e","d","e","d">>, <<"q","u","o","t">>, <<"t","i","m","e","o","u","t">>, <<>> }

ClassifyErrors ==
  { Error(name, text) :
      name \in {<<"E","r","r","o","r">>, <<"Q","u","o","t","a","E","x","c","e","e","d","e","d","E","r","r","o","r">>}, text \in ClassifyTexts }
  \cup { Thrown(text) : text \in ClassifyTexts }

ClassifyConfig ==
  [apiKeys |-> <<Entry(GOOGLE, "sk"), Entry(OPENAI, "sk")>>,
   defaultProvider |-> GOOGLE]

ClassifyInit == InitOver({ClassifyConfig}, {Undefined})

ClassifyReadFails == \E raw \in ClassifyErrors : StagedChangesFail(raw)

ClassifyRequestFails == \E e \in ClassifyErrors : Respond(Failure(e))

ClassifyPromptRejects == \E e \in ClassifyErrors : PromptRejects(e)

ClassifyNext ==
  \/ Start
  \/ OneStagedFile
  \/ StagedChanges
  \/ ResponseContent
  \/ ClassifyReadFails
  \/ ClassifyRequestFails
  \/ ClassifyPromptRejects

ClassifySpec == ClassifyInit /\ [][ClassifyNext]_vars

\* the history of the rejected messages, over many rejections
HistoryContents == { <<"f","e","a","t",":"," ","a">>, <<" ","f","i","x",":"," ","b","\n">> }

HistoryInit == InitOver({ClassifyConfig}, {Undefined})

HistoryResponseContent == \E c \in HistoryContents : Respond(Content(c))

HistoryRateLimited == Respond(Failure(RateLimited))

HistoryConfirmNo == Reject(MaxHistoryRejections)

HistoryNext ==
  \/ Start
  \/ OneStagedFile
  \/ StagedChanges
  \/ HistoryResponseContent
  \/ HistoryRateLimited
  \/ HistoryConfirmNo

HistorySpec == HistoryInit /\ [][HistoryNext]_vars

\* mainFunc over command lines, up to the call of promptCommitMessage
MaxMainArgs == 2

MainTokens ==
  { <<"h","e","l","p">>, <<"-","-","h","e","l","p">>, <<"-","h">>, <<"-","v">>, <<"-","-","v","e","r","s","i","o","n">>, <<"s","e","t","t","i","n","g","s">>,
    <<"c","o","n","f","i","g">>, <<"-","m">>, <<"-","y">>, <<"f","e","a","t">> }

ArgLists(tokens, n) == UNION { [1..k -> tokens] : k \in 0..n }

MainConfigs ==
  { [apiKeys |-> <<>>, defaultProvider |-> NoProvider],
    [apiKeys |-> <<Entry(GOOGLE, "sk")>>, defaultProvider |-> NoProvider],
    ClassifyConfig }

CliInit(configs, argLists) ==
  /\ config \in configs
  /\ cli \in { [NoCli EXCEPT !.phase = "start", !.args = args] : args \in argLists }
  /\ prefix = Undefined
  /\ skipConfirmation = FALSE
  /\ pc = "main"
  /\ previousMessages = <<>>
  /\ triedProviders = <<>>
  /\ stack = <<>>
  /\ provider = NoProvider
  /\ attempts = 0
  /\ prevMessage = <<>>
  /\ suggestedMsg = <<>>
  /\ exitCode = NoExit
  /\ surfaced = <<>>
  /\ commits = <<>>
  /\ gen = NoGen
  /\ lastGen = NoGen
  /\ caught = NoCaught
  /\ git = NoGit
  /\ obs = [genCount |-> 0,
            flowsBy |-> [p \in ApiProvider |-> 0],
            cascadeFlows |-> 0,
            cascadeRequests |-> 0,
            limited |-> 0,
            rejections |-> 0,
            original |-> getDefaultProvider(config),
            switched |-> FALSE,
            rejected |-> <<>>,
            limitedProviders |-> {}]

flow == <<config, prefix, skipConfirmation, pc, previousMessages, triedProviders,
          stack, provider, attempts, prevMessage, suggestedMsg, exitCode,
          surfaced, commits, gen, lastGen, caught, git, obs>>

MainInit == CliInit(MainConfigs, ArgLists(MainTokens, MaxMainArgs))

\* mainFunc runs up to the wait for checkForUpdates, or returns
MainStarts ==
  /\ cli.phase = "start"
  /\ cli' = mainStart(cli)
  /\ UNCHANGED flow

\* checkForUpdates has returned
UpdatesChecked ==
  /\ cli.phase = "checkForUpdates"
  /\ cli' = mainSetup(cli, config)
  /\ UNCHANGED flow

\* the answer to 'Would you like to set up a different provider?'
SetupAnswered ==
  \E setupDifferentProvider \in BOOLEAN :
    /\ cli.phase = "setupDifferentProvider"
    /\ cli' = IF setupDifferentProvider
                THEN [cli EXCEPT !.phase = "promptForProvider",
                                 !.did = Append(@, "promptForProvider")]
                ELSE [cli EXCEPT !.phase = "returned"]
    /\ UNCHANGED flow

MainNext ==
  \/ MainStarts
  \/ UpdatesChecked
  \/ SetupAnswered

MainSpec == MainInit /\ [][MainNext]_vars

\* processCommitArgs alone, over more argument lists
MaxArgs == 3

ArgTokens ==
  { <<"h","e","l","p">>, <<"-","h">>, <<"s","e","t","t","i","n","g","s">>, <<"-","y">>, <<"-","-","y","e","s">>, <<"-","m">>,
    <<"-","-","m","e","s","s","a","g","e">>, <<"-","m","f","i","x">>, <<"-","-","m","e","s","s","a","g","e","=","x">>, <<"f","e","a","t">>, <<"W","I","P">>,
    <<"-","a">>, <<"-","-","a","m","e","n","d">>, <<>> }

ArgsInit == CliInit({ClassifyConfig}, ArgLists(ArgTokens, MaxArgs))

ProcessCommitArgs ==
  /\ cli.phase = "start"
  /\ LET r == processCommitArgs(cli.args) IN
       cli' = [cli EXCEPT !.phase = "processed", !.prefix = r.prefix,
                          !.commandArgs = r.args,
                          !.skipConfirmation = r.skipConfirmation]
  /\ UNCHANGED flow

ArgsNext == ProcessCommitArgs

ArgsSpec == ArgsInit /\ [][ArgsNext]_vars

\* the ConfigManager alone: calls that write the configuration file
ConfigKeys == { "sk", "sk2", NoKey }

ConfigFiles ==
  { [apiKeys |-> ks, defaultProvider |-> d, lastDeclinedUpdateVersion |-> v] :
      ks \in KeyRecords \cup {<<>>}, d \in ApiProvider \cup {NoProvider},
      v \in {NoVersion, <<"2",".","6",".","0">>} }

ConfigInit == CliInit(ConfigFiles, {<<>>})

SaveApiKey ==
  \E key \in ConfigKeys, p \in ApiProvider :
    /\ config' = saveApiKey(config, key, p)
    /\ cli' = [cli EXCEPT !.call = [provider |-> p, key |-> key,
                                    op |-> "saveApiKey"]]
    /\ UNCHANGED <<prefix, skipConfirmation, pc, previousMessages,
                   triedProviders, stack, provider, attempts, prevMessage,
                   suggestedMsg, exitCode, surfaced, commits, gen, lastGen,
                   caught, git, obs>>

SetDefaultProvider ==
  \E p \in ApiProvider :
    /\ config' = setDefaultProvider(config, p)
    /\ cli' = [cli EXCEPT !.call = [provider |-> p, key |-> NoKey,
                                    op |-> "setDefaultProvider"]]
    /\ UNCHANGED <<prefix, skipConfirmation, pc, previousMessages,
                   triedProviders, stack, provider, attempts, prevMessage,
                   suggestedMsg, exitCode, surfaced, commits, gen, lastGen,
                   caught, git, obs>>

ConfigNext ==
  \/ SaveApiKey
  \/ SetDefaultProvider

ConfigSpec == ConfigInit /\ [][ConfigNext]_vars

\* checkForUpdates over several invocations of the CLI
MaxInvocations == 3

\* the versions of the package, in the order of their publication
Releases == << <<"2",".","6",".","0">>, <<"2",".","9",".","0">>, <<"2",".","1","0",".","0">>, <<"3",".","0",".","0">> >>

UpdateInit ==
  /\ CliInit(ConfigFiles, {<<>>})
  /\ config.apiKeys = <<Entry(OPENAI, "sk")>>
  /\ config.defaultProvider = OPENAI
  /\ config.lastDeclinedUpdateVersion = NoVersion

\* an invocation reaches checkForUpdates: package.json is read, and the
\* latest version is asked for
UpdateCheckStarts ==
  \E installed \in 1..Len(Releases), published \in 1..Len(Releases) :
    /\ cli.phase \in {"start", "checked"}
    /\ cli.update.invocations < MaxInvocations
    /\ IF cli.phase = "start"
         THEN cli' = [cli EXCEPT !.phase = "getLatestVersion",
                                 !.update.currentVersion = Releases[installed],
                                 !.update.published = published,
                                 !.update.invocations = 1]
         ELSE /\ published >= cli.update.published
              /\ cli' = [cli EXCEPT !.phase = "getLatestVersion",
                                    !.update.published = published,
                                    !.update.latestVersion = <<>>,
                                    !.update.shown = FALSE,
                                    !.update.invocations = @ + 1]
    /\ UNCHANGED flow

\* getLatestVersion resolves, with the published version or with null
LatestVersionFetched ==
  /\ cli.phase = "getLatestVersion"
  /\ \E latestVersion \in {Releases[cli.update.published], NoLatest} :
       cli' = IF promptsUpdate(config, cli.update.currentVersion, latestVersion)
                THEN [cli EXCEPT !.phase = "shouldUpdate",
                                 !.update.latestVersion = latestVersion,
                                 !.update.shown = TRUE]
                ELSE [cli EXCEPT !.phase = "checked",
                                 !.update.latestVersion = latestVersion]
  /\ UNCHANGED flow

\* the user answers 'No, remind me later'
UpdateDeclined ==
  /\ cli.phase = "shouldUpdate"
  /\ config' = setLastDeclinedUpdateVersion(config, cli.update.latestVersion)
  /\ cli' = [cli EXCEPT !.phase = "checked",
                        !.update.declined = @ \cup {cli.update.latestVersion}]
  /\ UNCHANGED <<prefix, skipConfirmation, pc, previousMessages,
                 triedProviders, stack, provider, attempts, prevMessage,
                 suggestedMsg, exitCode, surfaced, commits, gen, lastGen,
                 caught, git, obs>>

\* the user answers 'Yes, update now': npm install -g succeeds or fails
UpdateAccepted ==
  /\ cli.phase = "shouldUpdate"
  /\ \E updateSuccess \in BOOLEAN :
       cli' = IF updateSuccess
                THEN [cli EXCEPT !.phase = "checked",
                                 !.update.currentVersion =
                                    Releases[cli.update.published]]
                ELSE [cli EXCEPT !.phase = "checked"]
  /\ UNCHANGED flow

\* the prompt is closed with Ctrl+C: the catch block returns
UpdatePromptRejects ==
  /\ cli.phase = "shouldUpdate"
  /\ cli' = [cli EXCEPT !.phase = "checked"]
  /\ UNCHANGED flow

UpdateNext ==
  \/ UpdateCheckStarts
  \/ LatestVersionFetched
  \/ UpdateDeclined
  \/ UpdateAccepted
  \/ UpdatePromptRejects

UpdateSpec == UpdateInit /\ [][UpdateNext]_vars

----------------------------------------------------------------------------
(* getStagedChanges over many files whose diffs are at the cap of a file *)

ManyFiles ==
  << <<"f","0","1",".","t","s">>, <<"f","0","2",".","t","s">>, <<"f","0","3",".","t","s">>, <<"f","0","4",".","t","s">>, <<"f","0","5",".","t","s">>, <<"f","0","6",".","t","s">>,
     <<"f","0","7",".","t","s">>, <<"f","0","8",".","t","s">>, <<"f","0","9",".","t","s">>, <<"f","1","0",".","t","s">>, <<"f","1","1",".","t","s">>, <<"f","1","2",".","t","s">> >>

CapDiffs == { Lines(MAX_CHANGES_PER_FILE), Lines(MAX_CHANGES_PER_FILE + 1) }

CapInit == InitOver({GitConfig}, {Undefined})

CapStagedFiles == ListFiles({ManyFiles})

CapDiffFile == ReadDiff(CapDiffs)

CapStagedChanges == ChangesOver(CapDiffs)

CapNext ==
  \/ Start
  \/ CapStagedFiles
  \/ CapDiffFile
  \/ CapStagedChanges

CapSpec == CapInit /\ [][CapNext]_vars

----------------------------------------------------------------------------
(* What the claims speak of *)

HasPrefix(s, p) == Len(s) >= Len(p) /\ SubSeq(s, 1, Len(p)) = p

TypeTokens ==
  { <<"f","e","a","t">>, <<"f","i","x">>, <<"d","o","c","s">>, <<"s","t","y","l","e">>, <<"r","e","f","a","c","t","o","r">>, <<"p","e","r","f">>,
    <<"t","e","s","t">>, <<"c","h","o","r","e">> }

\* the validity the specification states
Valid(message, p) ==
  IF p.defined /\ Len(p.text) > 0
    THEN HasPrefix(message, p.text)
    ELSE \E t \in TypeTokens : HasPrefix(message, t)

Finished == lastGen.result # "none"
Returned == lastGen.result = "return"
Threw == lastGen.result = "throw"

IsAIError(e, text) == e.isError /\ e.name = <<"A","I","E","r","r","o","r">> /\ e.message = text

Configured == { p \in ApiProvider : \E i \in 1..Len(config.apiKeys) :
                  config.apiKeys[i] = Entry(p, "sk") }

Ended == pc \in {"done", "exited"}

\* a promptCommitMessage call is running
InCall == pc \in {"stagedChanges", "awaitResponse", "confirm", "committing"}

\* C1: one call of generateCommitMessage issues at most 3 backend requests,
\* one after another (a request is sent only when every earlier one was
\* answered), and it ends by returning a message or throwing an AIError.
C1_AtMostThreeRequests ==
  /\ gen.requests <= 3
  /\ lastGen.requests <= 3
  /\ pc = "awaitResponse" =>
       /\ gen.requests = attempts + 1
       /\ gen.requests = gen.invalid + 1
       /\ gen.result = "none"
  /\ pc # "awaitResponse" => gen = NoGen
  /\ lastGen.result \in {"none", "return", "throw"}
  /\ Threw => lastGen.error.isError /\ lastGen.error.name = <<"A","I","E","r","r","o","r">>
  /\ Returned => lastGen.message = suggestedMsg

C1_Witness == Threw /\ lastGen.requests = 3 /\ lastGen.invalid = 3

\* C2: a returned message is non-empty and valid: it starts with the
\* requested prefix when one was requested, else with one of the eight type
\* tokens; also when it is returned on the final attempt.
C2_ReturnedIsValid ==
  Returned =>
    /\ lastGen.message # <<>>
    /\ Valid(lastGen.message, prefix)
    /\ suggestedMsg = lastGen.message

C2_Witness == Returned /\ lastGen.requests = 3 /\ truthy(prefix)

\* C3 as stated: when every answer of the backend was the same valid
\* message, the message is returned on the 3rd attempt.
C3_ReturnedOnThirdAttempt ==
  (Finished /\ lastGen.allSame /\ lastGen.last.kind = "content"
     /\ Valid(trim(lastGen.last.content), prefix)) =>
    /\ Returned
    /\ lastGen.message = trim(lastGen.last.content)
    /\ lastGen.requests = 3

\* C3 amended: when every answer of the backend was the same valid message,
\* the message is returned on the 1st attempt, after one backend request.
C3_ReturnedOnFirstAttempt ==
  (Finished /\ lastGen.allSame /\ lastGen.last.kind = "content"
     /\ Valid(trim(lastGen.last.content), prefix)) =>
    /\ Returned
    /\ lastGen.message = trim(lastGen.last.content)
    /\ lastGen.requests = 1

C3_Witness ==
  Returned /\ lastGen.allSame /\ lastGen.requests = 1
    /\ lastGen.message = <<"f","e","a","t",":"," ","a">>

\* C4: when the first k answers are invalid and answer k+1 is valid, answer
\* k+1 is returned after exactly k+1 requests; every invalid candidate uses
\* one attempt, and no valid answer is passed over.
C4_FirstValidAfterInvalid ==
  /\ (Finished /\ lastGen.last.kind = "content"
        /\ Valid(trim(lastGen.last.content), prefix)) =>
       /\ Returned
       /\ lastGen.message = trim(lastGen.last.content)
       /\ lastGen.requests = lastGen.invalid + 1
       /\ lastGen.invalid < 3
  /\ (pc = "awaitResponse" /\ gen.last.kind = "content") =>
       /\ ~Valid(trim(gen.last.content), prefix)
       /\ attempts = gen.invalid

C4_Witness ==
  /\ ~truthy(prefix)
  /\ Returned
  /\ lastGen.invalid = 1
  /\ lastGen.requests = 2
  /\ lastGen.message = <<"f","e","a","t",":"," ","a">>

\* C5: a backend failure, or an answer whose content is missing or no
\* string, ends the call at that attempt with an AIError that carries the
\* message of the failure when it is an Error, else the fixed text; no
\* request follows it.
C5_FailureEndsTheCall ==
  /\ (Finished /\ lastGen.last.kind \in {"failure", "malformed"}) =>
       /\ Threw
       /\ IsAIError(lastGen.error,
                    IF lastGen.last.kind = "failure" /\ lastGen.last.error.isError
                      THEN lastGen.last.error.message
                      ELSE <<"F","a","i","l","e","d"," ","t","o"," ","g","e","n","e","r","a","t","e"," ","c","o","m","m","i","t"," ","m","e","s","s","a","g","e">>)
       /\ lastGen.requests = lastGen.invalid + 1
  /\ pc = "awaitResponse" => gen.last.kind \in {"none", "content"}

C5_Witness ==
  /\ Threw
  /\ lastGen.last = Failure(TimedOut)
  /\ lastGen.requests = 2

\* C6: when all 3 answers are invalid, the call makes exactly 3 requests and
\* fails with 'Failed to generate commit message'; before that an invalid
\* answer does not end the call.
C6_AllInvalidFails ==
  (Finished /\ lastGen.last.kind = "content"
     /\ ~Valid(trim(lastGen.last.content), prefix)) =>
    /\ Threw
    /\ lastGen.requests = 3
    /\ lastGen.invalid = 3
    /\ IsAIError(lastGen.error, <<"F","a","i","l","e","d"," ","t","o"," ","g","e","n","e","r","a","t","e"," ","c","o","m","m","i","t"," ","m","e","s","s","a","g","e">>)

C6_Witness ==
  /\ Threw
  /\ lastGen.invalid = 3
  /\ truthy(prefix)
  /\ lastGen.last = Content(<<"f","e","a","t",":"," ","a">>)

\* C7: the validity decided for a trimmed candidate is: with a non-empty
\* prefix, it starts with the prefix, whatever the type tokens; with an
\* empty or absent prefix, it starts with one of the eight type tokens.
C7_ValidityTest ==
  /\ lastGen.last.kind = "content" =>
       /\ lastGen.lastValid <=> Valid(trim(lastGen.last.content), prefix)
       /\ Returned <=> Valid(trim(lastGen.last.content), prefix)
  /\ gen.last.kind = "content" =>
       gen.lastValid <=> Valid(trim(gen.last.content), prefix)

C7_Witness ==
  /\ prefix = Str(<<"W","I","P">>)
  /\ gen.last = Content(<<"f","e","a","t",":"," ","a">>)
  /\ ~gen.lastValid

\* C8: when the default provider was switched for a fallback retry, the
\* persisted default provider is the original one again when the
\* invocation ends, whatever the outcome.
C8_DefaultRestored ==
  (Ended /\ obs.switched) => getDefaultProvider(config) = obs.original

\* C9: with 3 configured providers that all fail with a rate limit, the
\* generation runs once per provider, then the invocation ends with the
\* 'Rate limit reached for all available providers' message and exit code
\* 1, and no commit is executed.
C9_AllProvidersExhausted ==
  /\ (Cardinality(Configured) = 3 /\ obs.limited = 3) =>
       /\ pc = "exited"
       /\ exitCode = 1
       /\ surfaced = ExhaustedMsg
       /\ commits = <<>>
       /\ obs.rejections = 0 =>
            /\ obs.genCount = 3
            /\ \A p \in ApiProvider : obs.flowsBy[p] = 1
  /\ surfaced = ExhaustedMsg =>
       /\ pc = "exited"
       /\ exitCode = 1
       /\ obs.limited = Cardinality(Configured)
       /\ obs.cascadeFlows = obs.limited

C9_Witness ==
  /\ Cardinality(Configured) = 3
  /\ obs.limited = 3
  /\ obs.rejections = 0
  /\ surfaced = ExhaustedMsg

NoDuplicates(seq) == \A i, j \in 1..Len(seq) : seq[i] = seq[j] => i = j

\* C10: a fallback cascade ends: the tried list holds distinct providers and
\* never the one about to be added, so that with N configured providers a
\* cascade without a rejection in between runs at most N generations and at
\* most 3*N backend requests.
C10_CascadeBounded ==
  LET N == Cardinality(Configured) IN
    /\ obs.cascadeFlows <= N
    /\ obs.cascadeRequests <= 3 * N
    /\ NoDuplicates(triedProviders)
    /\ \A i \in 1..Len(triedProviders) : triedProviders[i] \in Configured
    /\ InCall => ~contains(triedProviders, getDefaultProvider(config))
    /\ Len(triedProviders) < N

C10_Witness ==
  /\ Cardinality(Configured) = 3
  /\ obs.cascadeFlows = 3
  /\ obs.cascadeRequests = 9
  /\ obs.rejections = 1

RateLimitWords ==
  { <<"r","a","t","e"," ","l","i","m","i","t">>, <<"t","o","o"," ","m","a","n","y"," ","r","e","q","u","e","s","t","s">>, <<"4","2","9">>, <<"q","u","o","t","a">> }

\* the rate-limit class as stated: a substring, whatever its case, of the
\* string form or of the message field
RateLimitClass(e) ==
  \E word \in RateLimitWords :
    \/ includes(toLowerCase(toString(e)), word)
    \/ includes(toLowerCase(e.message), word)

\* C11: a caught failure that is no cancellation is classified as a rate
\* limit exactly when 'rate limit', 'too many requests', '429' or 'quota'
\* occurs, whatever the case, in its string form or in its message field.
C11_RateLimitClassification ==
  caught.kind \in {"rateLimit", "other"} =>
    (caught.kind = "rateLimit" <=> RateLimitClass(caught.error))

\* the closed provider enumeration, in its order
EnumerationOrder == <<OPENAI, GOOGLE, ANTHROPIC>>

\* the first provider of the enumeration that has a key and was not tried
FirstUntried(tried) ==
  LET free(i) == EnumerationOrder[i] \in Configured
                   /\ ~contains(tried, EnumerationOrder[i])
  IN  IF \E i \in 1..3 : free(i)
        THEN EnumerationOrder[CHOOSE i \in 1..3 :
                                free(i) /\ \A j \in 1..(i - 1) : ~free(j)]
        ELSE NoProvider

\* a call that a fallback started is running
InFallbackCall ==
  InCall /\ stack # <<>> /\ stack[Len(stack)].site = "fallback"

\* C12: the provider a fallback retries with is the first one, in the order
\* openai, google, anthropic, that has a key and is not in the tried list,
\* whatever the order in which the keys were stored.
C12_FallbackInEnumerationOrder ==
  InFallbackCall =>
    /\ triedProviders # <<>>
    /\ triedProviders[Len(triedProviders)] = stack[Len(stack)].originalProvider
    /\ getDefaultProvider(config) =
         FirstUntried(triedProviders)

\* the text a failure carries: the message of an Error, else the thrown
\* value itself
OwnText(e) == IF e.isError THEN e.message ELSE e.text

\* C13 as stated: a failure that is neither a rate limit nor a cancellation
\* ends the invocation with exit code 1 and its own message surfaced.
C13_OwnMessageSurfaced ==
  caught.kind = "other" =>
    /\ pc = "exited"
    /\ exitCode = 1
    /\ surfaced = OwnText(caught.error)

\* C13 amended: a failure that is neither a rate limit nor a cancellation
\* switches nothing (the persisted configuration, the tried list, the
\* provider and the callers stay, no generation follows) and ends the
\* invocation with exit code 1; its message is surfaced when it is an
\* Error, else the text 'Failed to generate commit message' (for a failed
\* commit, 'Failed to commit changes' is the message of the commit error).
C13_NoSwitchOnOtherFailure ==
  [][ (pc # "exited" /\ caught' # caught /\ caught'.kind = "other") =>
        /\ config' = config
        /\ triedProviders' = triedProviders
        /\ provider' = provider
        /\ stack' = stack
        /\ obs' = obs
        /\ commits' = commits
        /\ pc' = "exited"
        /\ exitCode' = 1
        /\ surfaced' = IF caught'.error.isError
                          THEN caught'.error.message
                          ELSE <<"F","a","i","l","e","d"," ","t","o"," ","g","e","n","e","r","a","t","e"," ","c","o","m","m","i","t"," ","m","e","s","s","a","g","e">> ]_vars

C13_Witness ==
  /\ pc = "exited"
  /\ caught.kind = "other"
  /\ caught.site = "generate"
  /\ caught.error = AIError(<<"R","e","q","u","e","s","t"," ","t","i","m","e","d"," ","o","u","t">>)
  /\ surfaced = <<"R","e","q","u","e","s","t"," ","t","i","m","e","d"," ","o","u","t">>
  /\ obs.switched

\* getStagedChanges has listed the staged files, and there are none
NothingStaged ==
  /\ git.phase \notin {"idle", "list"}
  /\ \A i \in 1..Len(git.files) : git.files[i] = <<>>

\* C14: with no staged file, getStagedChanges returns NO_STAGED_CHANGES
\* without throwing, and the flow ends without error: no diff is read, no
\* backend request is made, no commit is executed, and the exit code is 0.
C14_NoStagedChangesEndsQuietly ==
  NothingStaged =>
    /\ git.phase = "noStagedChanges"
    /\ git.fetched = <<>>
    /\ caught.site # "stagedChanges"
    /\ pc \in {"returning", "done"}
    /\ gen = NoGen
    /\ (~obs.switched /\ obs.rejections = 0) => obs.genCount = 0
    /\ commits = <<>>
    /\ surfaced = <<>>
    /\ exitCode = IF pc = "done" THEN 0 ELSE NoExit

C14_Witness ==
  /\ NothingStaged
  /\ pc = "done"
  /\ exitCode = 0
  /\ obs.genCount = 0

\* the extensions of binary and asset files that the tests name
BinaryExtensions ==
  { <<"p","n","g">>, <<"m","p","4">>, <<"m","p","3">>, <<"p","d","f">>, <<"t","t","f">>, <<"z","i","p">>, <<"e","x","e">> }

\* the part of a path after its last dot
Extension(path) ==
  LET dots == { i \in 1..Len(path) : path[i] = "." }
      lastDot == CHOOSE i \in dots : \A j \in dots : j <= i
  IN  SubSeq(path, lastDot + 1, Len(path))

\* a binary or asset file: a known extension, or no extension
IsBinaryAsset(path) ==
  \/ \A i \in 1..Len(path) : path[i] # "."
  \/ Extension(path) \in BinaryExtensions

\* C15: a staged path with a binary or asset extension, or with no
\* extension, is rendered as '<path> - Binary/Asset file' and its diff is
\* never read; a text file staged with it is rendered with the body of its
\* diff.
C15_BinaryFilesNotDiffed ==
  git.phase \in {"diff", "done"} =>
    /\ \A i \in 1..Len(git.fetched) : ~IsBinaryAsset(git.fetched[i])
    /\ \A i \in 1..Len(git.allChanges) :
         git.allChanges[i].kind = "file" =>
           /\ ~IsBinaryAsset(git.allChanges[i].file)
           /\ git.allChanges[i].body # <<>>

\* the sections of the files that were processed, in their order
FileSections ==
  SelectSeq(git.allChanges, LAMBDA s : s.kind \in {"file", "tooManyChanges"})

SectionsOfKind(kind) ==
  { i \in 1..Len(git.allChanges) : git.allChanges[i].kind = kind }

\* the number of processed files whose diff has more than cap lines
RECURSIVE CountOver(_, _)
CountOver(sizes, cap) ==
  IF sizes = <<>> THEN 0
  ELSE (IF Head(sizes) > cap THEN 1 ELSE 0) + CountOver(Tail(sizes), cap)

\* C16: a processed file is rendered as 'Too many changes to display (n
\* lines)', n the number of lines of its diff, and without its body, exactly
\* when n > MAX_CHANGES_PER_FILE (1000 lines are shown in full); the summary
\* 't file(s) exceeded maximum line count' is there exactly when t > 0, t
\* the number of files so truncated.
C16_PerFileTruncation ==
  git.phase \in {"diff", "done"} =>
    /\ Len(FileSections) = Len(git.sizes)
    /\ \A k \in 1..Len(git.sizes) :
         LET section == FileSections[k] IN
           /\ section.file = git.files[k]
           /\ IF git.sizes[k] > 1000
                THEN /\ section.kind = "tooManyChanges"
                     /\ section.count = git.sizes[k]
                     /\ section.body = <<>>
                ELSE /\ section.kind = "file"
                     /\ Len(section.body) = git.sizes[k]
    /\ git.truncatedFiles = CountOver(git.sizes, 1000)
    /\ git.phase = "diff" => SectionsOfKind("summary") = {}
    /\ git.phase = "done" =>
         IF git.truncatedFiles > 0
           THEN /\ SectionsOfKind("summary") = {1}
                /\ git.allChanges[1].count = git.truncatedFiles
           ELSE SectionsOfKind("summary") = {}

C16_Witness ==
  /\ git.phase = "done"
  /\ git.sizes = <<1000, 1001>>
  /\ git.truncatedFiles = 1
  /\ git.allChanges[1] = SummarySection(1)
  /\ git.allChanges[3] = TooManySection(git.files[2], 1001)

RECURSIVE SumOf(_)
SumOf(sizes) ==
  IF sizes = <<>> THEN 0 ELSE Head(sizes) + SumOf(Tail(sizes))

\* C17: the diffs are read in the order of the list; once the running total
\* of diff lines (truncated files counted too) exceeds MAX_TOTAL_CHANGES
\* after a file with k > 0 files after it, no further diff is read and one
\* marker 'k more files not shown due to size constraints' is appended;
\* otherwise there is no marker and every file is processed. The files
\* processed and the files the marker counts are all the staged files.
C17_TotalCap ==
  git.phase \in {"diff", "done"} =>
    LET n == Len(git.fetched)
        skipped == Len(git.files) - n
        markers == SectionsOfKind("moreFiles")
    IN  /\ git.fetched = SubSeq(git.files, 1, n)
        /\ git.totalChangeCount = SumOf(git.sizes)
        /\ \A k \in 1..(n - 1) : SumOf(SubSeq(git.sizes, 1, k)) <= 10000
        /\ git.phase = "diff" =>
             /\ markers = {}
             /\ skipped > 0
             /\ SumOf(git.sizes) <= 10000
        /\ git.phase = "done" =>
             /\ skipped > 0 <=> (SumOf(git.sizes) > 10000 /\ n < Len(git.files))
             /\ IF skipped > 0
                  THEN /\ markers = {Len(git.allChanges)}
                       /\ git.allChanges[Len(git.allChanges)].count = skipped
                  ELSE markers = {}

C17_Witness ==
  /\ git.phase = "done"
  /\ Len(git.files) = 3
  /\ git.sizes = <<1001, 9000>>
  /\ git.allChanges[Len(git.allChanges)] = MoreFilesSection(1)

\* C18: when a read of getStagedChanges fails with an Error, the caller
\* receives a GitError whose message is 'Failed to get staged changes', with
\* nothing of the raw failure in it; when the failure is not an Error, the
\* caller receives the very value that was thrown.
C18_ReadFailureWrapped ==
  caught.site = "stagedChanges" =>
    IF caught.raw.isError
      THEN /\ caught.error.isError
           /\ caught.error.name = <<"G","i","t","E","r","r","o","r">>
           /\ caught.error.message = <<"F","a","i","l","e","d"," ","t","o"," ","g","e","t"," ","s","t","a","g","e","d"," ","c","h","a","n","g","e","s">>
           /\ caught.error.text = <<>>
      ELSE caught.error = caught.raw

C18_Witness ==
  /\ caught.site = "stagedChanges"
  /\ caught.raw = Error(<<"E","r","r","o","r">>,
                        <<"C","o","m","m","a","n","d"," ","f","a","i","l","e","d",":"," ","g","i","t"," ","d","i","f","f"," ","-","-","c","a","c","h","e","d"," ","-","-","n","a","m","e","-","o","n","l","y">>)
  /\ caught.error.message = <<"F","a","i","l","e","d"," ","t","o"," ","g","e","t"," ","s","t","a","g","e","d"," ","c","h","a","n","g","e","s">>
  /\ surfaced = <<"F","a","i","l","e","d"," ","t","o"," ","g","e","t"," ","s","t","a","g","e","d"," ","c","h","a","n","g","e","s">>

\* part occurs in text
Includes(text, part) ==
  \E i \in 0..(Len(text) - Len(part)) :
    SubSeq(text, i + 1, i + Len(part)) = part

\* C19: when git commit fails after writing "A" to stdout and "B" to stderr,
\* the text surfaced for the commit error includes both "A" and "B", and
\* is never the generic 'Failed to commit changes'.
C19_CommitFailureFidelity ==
  (caught.site = "commit" /\ caught.kind = "other") =>
    /\ Includes(surfaced, caught.stdout)
    /\ Includes(surfaced, caught.stderr)
    /\ surfaced # <<"F","a","i","l","e","d"," ","t","o"," ","c","o","m","m","i","t"," ","c","h","a","n","g","e","s">>

\* the flow was ended by a failure: of the read of the staged changes, of
\* the generation (all providers exhausted included), or of the commit
EndedByFailure ==
  /\ pc = "exited"
  /\ caught.site \in {"stagedChanges", "generate", "commit"}
  /\ caught.kind \in {"other", "rateLimit"}

\* the flow was ended by the user: Ctrl+C at a prompt or while waiting
EndedByCancellation ==
  /\ pc = "exited"
  /\ caught.kind = "cancellation"

UserCancelled ==
  \/ caught.site = "signal"
  \/ /\ caught.site = "confirm"
     /\ caught.raw.isError
     /\ caught.raw.name = <<"E","x","i","t","P","r","o","m","p","t","E","r","r","o","r">>

LastOf(seq, n) ==
  IF Len(seq) <= n THEN seq ELSE SubSeq(seq, Len(seq) - n + 1, Len(seq))

\* a promptCommitMessage call is at work with its previousMessages
CallAtWork == pc \in {"stagedChanges", "awaitResponse", "confirm"}

\* C22: after any number of rejections, the history a call generates with
\* has at most 3 entries, which are the most recently rejected messages in
\* the order of their rejection, the message just rejected last; a fallback
\* retry is called with the same history.
C22_HistoryOfLastThree ==
  CallAtWork =>
    /\ Len(previousMessages) <= 3
    /\ previousMessages = LastOf(obs.rejected, 3)
    /\ obs.rejected # <<>> =>
         previousMessages[Len(previousMessages)] = obs.rejected[Len(obs.rejected)]

C22_Witness ==
  /\ pc = "confirm"
  /\ Len(obs.rejected) = 5
  /\ previousMessages = SubSeq(obs.rejected, 3, 5)
  /\ obs.rejected[1] # previousMessages[1]
  /\ stack[Len(stack)].site = "fallback"

\* a step in which generateCommitMessage returned a message
MessageGenerated ==
  /\ lastGen' # lastGen
  /\ lastGen'.result = "return"

\* C23: with -y, when a message has been generated the commit is executed
\* with exactly that message and no confirmation prompt is shown; without
\* -y, a commit is executed only from the confirmation prompt, on the
\* user's confirmation, with the message that was displayed.
C23_ConfirmationBeforeCommit ==
  [][ /\ (skipConfirmation /\ MessageGenerated) =>
           /\ pc' = "committing"
           /\ commits' = Append(commits, lastGen'.message)
      /\ skipConfirmation => pc' # "confirm"
      /\ (~skipConfirmation /\ MessageGenerated) =>
           /\ pc' = "confirm"
           /\ commits' = commits
           /\ suggestedMsg' = lastGen'.message
      /\ (~skipConfirmation /\ commits' # commits) =>
           /\ pc = "confirm"
           /\ commits' = Append(commits, suggestedMsg)
    ]_vars

C23_Witness ==
  /\ skipConfirmation
  /\ pc = "committing"
  /\ lastGen.result = "return"
  /\ commits = <<lastGen.message>>
  /\ obs.rejections = 0

\* the command line holds a help keyword or a version flag
AsksHelpOrVersion ==
  \E i \in 1..Len(cli.args) :
    cli.args[i] \in { <<"h","e","l","p">>, <<"-","-","h","e","l","p">>, <<"-","h">>, <<"-","v">>, <<"-","-","v","e","r","s","i","o","n">> }

\* C24: when the arguments hold a help keyword (help, --help, -h) or a
\* version flag (-v, --version), mainFunc shows the help or the version and
\* returns: the commit arguments are not processed, no update check is
\* made, the configuration is not read, no git command and no AI request
\* is issued.
C24_HelpAndVersionFirst ==
  (AsksHelpOrVersion /\ cli.phase # "start") =>
    /\ cli.phase = "returned"
    /\ cli.did \in { <<"showHelp">>, <<"showVersion">> }
    /\ cli.commandArgs = <<>>
    /\ cli.prefix = <<>>
    /\ pc = "main"
    /\ git = NoGit
    /\ gen = NoGen
    /\ commits = <<>>

C24_Witness ==
  /\ cli.args = << <<"-","m">>, <<"-","v">> >>
  /\ cli.phase = "returned"
  /\ cli.did = <<"showVersion">>

\* the argument at i is the value of a -m or --message before it
RECURSIVE IsValueAt(_, _)
IsValueAt(args, i) ==
  /\ i > 1
  /\ args[i - 1] \in { <<"-","m">>, <<"-","-","m","e","s","s","a","g","e">> }
  /\ ~IsValueAt(args, i - 1)

\* the argument at i is a message option with its text attached
IsAttachedMessage(args, i) ==
  \/ HasPrefix(args[i], <<"-","m">>)
  \/ HasPrefix(args[i], <<"-","-","m","e","s","s","a","g","e","=">>)

\* the argument at i is consumed: -y, --yes, a message option, or its value
IsConsumed(args, i) ==
  \/ IsValueAt(args, i)
  \/ args[i] \in { <<"-","y">>, <<"-","-","y","e","s">>, <<"-","m">>, <<"-","-","m","e","s","s","a","g","e">> }
  \/ IsAttachedMessage(args, i)

CommandKeywords ==
  { <<"h","e","l","p">>, <<"-","-","h","e","l","p">>, <<"-","h">>, <<"s","e","t","t","i","n","g","s">>, <<"c","o","n","f","i","g">> }

\* the arguments that may be the prefix
PrefixCandidates(args) ==
  { i \in 1..Len(args) :
      /\ ~IsConsumed(args, i)
      /\ ~HasPrefix(args[i], <<"-">>)
      /\ args[i] \notin CommandKeywords }

FirstOf(indices) == CHOOSE i \in indices : \A j \in indices : i <= j

\* the arguments at the indices of a set, in their order
RECURSIVE Pick(_, _, _)
Pick(args, indices, i) ==
  IF i > Len(args) THEN <<>>
  ELSE (IF i \in indices THEN <<args[i]>> ELSE <<>>) \o Pick(args, indices, i + 1)

\* C25: processCommitArgs takes as prefix the first argument that does not
\* start with '-' and is no command keyword; at most one prefix is
\* extracted, no command keyword is the prefix, and every argument that is
\* neither the prefix nor consumed (-y/--yes, -m/--message and its value) is
\* passed through in args in its original order.
C25_PrefixAndPassThrough ==
  cli.phase = "processed" =>
    LET args == cli.args
        candidates == PrefixCandidates(args)
        taken == IF candidates = {} THEN {} ELSE {FirstOf(candidates)}
        passed == { i \in 1..Len(args) : ~IsConsumed(args, i) /\ i \notin taken }
    IN  /\ cli.prefix = IF candidates = {} THEN <<>> ELSE args[FirstOf(candidates)]
        /\ cli.prefix \notin CommandKeywords
        /\ cli.commandArgs = Pick(args, passed, 1)

\* what processCommitArgs returned: the prefix, when there is one, and args
ReturnedArgs ==
  (IF cli.prefix = <<>> THEN <<>> ELSE <<cli.prefix>>) \o cli.commandArgs

\* how often v occurs in a sequence, at the indices of a set
CountAt(seq, indices, v) == Cardinality({ i \in indices : seq[i] = v })

\* C26: '-m' and '--message' with the argument that follows, and every
\* argument of the form '-m<text>' or '--message=<text>', are neither in
\* the returned args nor the prefix: nothing returned has one of these
\* forms, and the value of a message option is returned only as often as it
\* also occurs elsewhere in the arguments.
C26_MessageOptionsDropped ==
  cli.phase = "processed" =>
    /\ \A i \in 1..Len(ReturnedArgs) :
         /\ ReturnedArgs[i] \notin { <<"-","m">>, <<"-","-","m","e","s","s","a","g","e">> }
         /\ ~HasPrefix(ReturnedArgs[i], <<"-","m">>)
         /\ ~HasPrefix(ReturnedArgs[i], <<"-","-","m","e","s","s","a","g","e","=">>)
    /\ \A k \in 1..Len(cli.args) :
         CountAt(ReturnedArgs, 1..Len(ReturnedArgs), cli.args[k])
           <= CountAt(cli.args,
                      { i \in 1..Len(cli.args) : ~IsValueAt(cli.args, i) },
                      cli.args[k])

C26_Witness ==
  /\ cli.phase = "processed"
  /\ cli.args = << <<"-","-","m","e","s","s","a","g","e">>, <<"f","e","a","t">>, <<"-","m","f","i","x">> >>
  /\ cli.prefix = <<>>
  /\ cli.commandArgs = <<>>

\* -y or --yes occurs at i, and not as the value of a message option
YesAt(args, i) ==
  /\ args[i] \in { <<"-","y">>, <<"-","-","y","e","s">> }
  /\ ~IsValueAt(args, i)

\* C27 as stated: skipConfirmation is true iff '-y' or '--yes' occurs
\* among the arguments, and neither is ever returned in args or as prefix.
C27_YesAnywhere ==
  cli.phase = "processed" =>
    /\ cli.skipConfirmation <=>
         \E i \in 1..Len(cli.args) : cli.args[i] \in { <<"-","y">>, <<"-","-","y","e","s">> }
    /\ \A i \in 1..Len(ReturnedArgs) : ReturnedArgs[i] \notin { <<"-","y">>, <<"-","-","y","e","s">> }

\* C27, amended: skipConfirmation is true iff '-y' or '--yes' occurs among
\* the arguments other than as the value that follows '-m' or '--message'
\* (which is dropped with the option); '-y' and '--yes' are never returned
\* in args or as prefix.
C27_YesUnlessMessageValue ==
  cli.phase = "processed" =>
    /\ cli.skipConfirmation <=> \E i \in 1..Len(cli.args) : YesAt(cli.args, i)
    /\ \A i \in 1..Len(ReturnedArgs) : ReturnedArgs[i] \notin { <<"-","y">>, <<"-","-","y","e","s">> }

C27_Witness ==
  /\ cli.phase = "processed"
  /\ cli.args = << <<"-","m">>, <<"-","y">>, <<"-","-","y","e","s">> >>
  /\ cli.skipConfirmation
  /\ cli.commandArgs = <<>>

\* the step is a call saveApiKey(key, p) that wrote the configuration
SavedApiKey ==
  /\ cli'.call.op = "saveApiKey"
  /\ <<config, cli>>' # <<config, cli>>

\* C28: saveApiKey(key, p) sets the stored key of p to key, leaves the
\* stored key of every other provider and the last declined update version
\* as they were, and changes the default provider only when none was set,
\* to p; a default provider that was set is not overridden.
C28_SaveApiKeyFrame ==
  [][ SavedApiKey =>
        LET p == cli'.call.provider IN
          /\ storedKey(config', p) = cli'.call.key
          /\ \A q \in ApiProvider \ {p} : storedKey(config', q) = storedKey(config, q)
          /\ config'.lastDeclinedUpdateVersion = config.lastDeclinedUpdateVersion
          /\ config'.defaultProvider =
               IF config.defaultProvider = NoProvider
                 THEN p ELSE config.defaultProvider
    ]_vars

C28_Witness ==
  /\ cli.call = [provider |-> OPENAI, key |-> "sk2", op |-> "saveApiKey"]
  /\ config.defaultProvider = GOOGLE
  /\ storedKey(config, OPENAI) = "sk2"
  /\ storedKey(config, GOOGLE) = "sk"
  /\ config.lastDeclinedUpdateVersion = <<"2",".","6",".","0">>

\* the place of a version in the order of publication
ReleaseOf(version) == CHOOSE r \in 1..Len(Releases) : Releases[r] = version

\* the update prompt is on the screen
UpdatePromptShown == cli.phase = "shouldUpdate"

\* C29: once the user has declined the update to a version, later
\* invocations do not prompt for it again while it is still the latest
\* version; the prompt is shown only when the latest version is newer than
\* the installed one and is not the version declined last.
C29_DeclinedVersionNotPromptedAgain ==
  /\ UpdatePromptShown =>
       /\ cli.update.latestVersion = Releases[cli.update.published]
       /\ cli.update.latestVersion \notin cli.update.declined
       /\ cli.update.latestVersion # config.lastDeclinedUpdateVersion
       /\ ReleaseOf(cli.update.latestVersion)
            > ReleaseOf(cli.update.currentVersion)
  /\ cli.update.declined # {} =>
       /\ config.lastDeclinedUpdateVersion \in cli.update.declined
       /\ \A v \in cli.update.declined :
            ReleaseOf(v) <= ReleaseOf(config.lastDeclinedUpdateVersion)

C29_Witness ==
  /\ cli.phase = "checked"
  /\ cli.update.invocations = 2
  /\ ~cli.update.shown
  /\ cli.update.currentVersion = <<"2",".","9",".","0">>
  /\ cli.update.latestVersion = <<"2",".","1","0",".","0">>
  /\ config.lastDeclinedUpdateVersion = <<"2",".","1","0",".","0">>

----------------------------------------------------------------------------
\* the sections of the returned text that stand for one staged file
SectionsOfFiles(allChanges) ==
  SelectSeq(allChanges, LAMBDA s : s.kind \in {"file", "tooManyChanges"})

\* the sections of the returned text that stand for no single file
IsNote(s) == s.kind \in {"summary", "moreFiles"}

\* C30: the text that getStagedChanges returns names every staged path in
\* the order in which git reported them, the paths that the total cap left
\* out included, before any section; the sections of the files follow in
\* that same order, and the section of a file shows nothing but the diff
\* that git gave for that very file.
C30_ManifestThenSections ==
  git.phase = "done" =>
    LET out == changes(git)
        sections == SectionsOfFiles(out.allChanges)
    IN  /\ out.files = git.files
        /\ Len(sections) = Len(git.reads)
        /\ Len(sections) <= Len(out.files)
        /\ \A k \in 1..Len(sections) :
             /\ sections[k].file = out.files[k]
             /\ git.reads[k].file = out.files[k]
             /\ sections[k].kind = "file" =>
                  sections[k].body = git.reads[k].fileChanges
             /\ sections[k].kind = "tooManyChanges" =>
                  sections[k].body = <<>>
        /\ \A i \in 1..Len(out.allChanges) :
             IsNote(out.allChanges[i]) =>
               /\ out.allChanges[i].body = <<>>
               /\ out.allChanges[i].file = <<>>

\* three paths are staged, the third is left out by the total cap, and the
\* first section shows a diff that differs from the one read for the second
C30_Witness ==
  /\ git.phase = "done"
  /\ Len(changes(git).files) = 3
  /\ Len(SectionsOfFiles(changes(git).allChanges)) = 2
  /\ SectionsOfFiles(changes(git).allChanges)[1].kind = "file"
  /\ git.reads[1].fileChanges # git.reads[2].fileChanges

----------------------------------------------------------------------------
\* the retry diagnostic pair that the claim expects for an invalid candidate
ExpectedPair(message, p) ==
  << GeneratedMessage(message),
     IF p.defined /\ Len(p.text) > 0 THEN WrongPrefix ELSE WrongFormat >>

\* what the latest iteration of a call must have logged
LoggedAsExpected(g) ==
  g.last.kind = "content" =>
    g.logged = IF g.lastValid THEN <<>>
               ELSE ExpectedPair(trim(g.last.content), prefix)

\* C31: each invalid candidate is logged as one pair, the candidate and then
\* the diagnostic of the prefix when a prefix was requested or the one of
\* the Conventional Commits format otherwise; the number of diagnostics of
\* a call is its number of invalid candidates, and the attempt whose
\* message is returned logs none.
C31_OnePairPerInvalidCandidate ==
  /\ LoggedAsExpected(gen)
  /\ LoggedAsExpected(lastGen)
  /\ gen.diagnostics = gen.invalid
  /\ lastGen.diagnostics = lastGen.invalid
  /\ Returned => lastGen.logged = <<>>

\* a message is returned by the third attempt after two candidates that
\* lacked the requested prefix
C31_Witness ==
  /\ Returned
  /\ truthy(prefix)
  /\ lastGen.requests = 3
  /\ lastGen.invalid = 2
  /\ lastGen.diagnostics = 2

----------------------------------------------------------------------------
\* the call ended by the throw that follows the loop: every request was
\* answered with a string, and still the call threw
SafeguardReached == Threw /\ lastGen.last.kind = "content"

\* every attempt of the call ended without a failure of the backend
AllAttemptsCompleted ==
  /\ Finished
  /\ lastGen.requests = MAX_ATTEMPTS
  /\ lastGen.last.kind = "content"

----------------------------------------------------------------------------
\* a log holds the diagnostic of a message that equals the previous one
SaysSameAsPrevious(log) == \E i \in 1..Len(log) : log[i] = SameAsPrevious

\* C33: a call returns the first valid candidate that the backend gives: a
\* call that still waits for an answer has seen invalid candidates only, a
\* returned message is the only valid candidate of its call, and the retry
\* for a message equal to the previous candidate is never taken nor logged.
C33_FirstValidCandidateReturned ==
  /\ gen.same = 0 /\ lastGen.same = 0
  /\ ~SaysSameAsPrevious(gen.logged) /\ ~SaysSameAsPrevious(lastGen.logged)
  /\ (pc = "awaitResponse" /\ gen.requests > 1) =>
       /\ ~gen.lastValid
       /\ gen.invalid = gen.requests - 1
  /\ Returned =>
       /\ lastGen.lastValid
       /\ lastGen.invalid = lastGen.requests - 1
       /\ lastGen.message = trim(lastGen.last.content)

\* the second candidate of a call is valid and is returned, the first one
\* was not valid and became the previous candidate
C33_Witness ==
  /\ Returned
  /\ lastGen.requests = 2
  /\ lastGen.invalid = 1
  /\ lastGen.same = 0
  /\ Valid(lastGen.message, prefix)

----------------------------------------------------------------------------
\* C34: the requests of one generateCommitMessage call all carry the same
\* prompt, whatever the attempt and the candidates that were refused before
\* it: the prompt is made of the changes, of the prefix when one was
\* requested and of the previous messages that were passed to the call.
C34_SamePromptOnEveryAttempt ==
  /\ Cardinality(gen.sent) <= 1
  /\ Cardinality(lastGen.sent) <= 1
  /\ gen.requests >= 1 => Cardinality(gen.sent) = 1
  /\ Finished => Cardinality(lastGen.sent) = 1
  /\ pc = "awaitResponse" =>
       \A m \in gen.sent :
         /\ m.content.changesText = changes(git)
         /\ m.content.promptText.joined = previousMessages
         /\ m.content.promptText.required =
              IF prefix.defined /\ Len(prefix.text) > 0 THEN prefix.text ELSE <<>>

\* the third request of a call is waiting for its answer after two refused
\* candidates, and the call was given a message that the user had rejected
C34_Witness ==
  /\ pc = "awaitResponse"
  /\ gen.requests = 3
  /\ gen.invalid = 2
  /\ previousMessages # <<>>
  /\ Cardinality(gen.sent) = 1

----------------------------------------------------------------------------
\* GitManager.commit was executed in this invocation
CommitAttempted == commits # <<>>

\* nothing is generated, asked or committed any more: the calls return or
\* the process has ended
Unwinding == pc \in {"committing", "returning", "done", "exited"}

\* C35: a step that executes GitManager.commit is the first to do so in the
\* invocation, commits the message that generateCommitMessage returned last,
\* and is either the user's confirmation of that message or the return of
\* the message when the confirmation is skipped; once a commit was
\* attempted, no step commits or sends a request, and the calls that
\* regenerate or fall back only return.
C35_CommitOnceAndLast ==
  [][ /\ commits' # commits =>
           /\ commits = <<>>
           /\ lastGen'.result = "return"
           /\ commits' = <<lastGen'.message>>
           /\ suggestedMsg' = lastGen'.message
           /\ pc' = "committing"
           /\ IF skipConfirmation
                THEN pc = "awaitResponse" /\ lastGen' # lastGen
                ELSE pc = "confirm" /\ lastGen' = lastGen
      /\ CommitAttempted =>
           /\ Unwinding /\ Unwinding'
           /\ commits' = commits
           /\ gen = NoGen /\ gen' = NoGen
           /\ obs'.genCount = obs.genCount
           /\ obs'.cascadeRequests = obs.cascadeRequests
    ]_vars

\* the process has ended after a commit made by a fallback provider for a
\* message generated after a rejection: the outer calls have returned
C35_Witness ==
  /\ pc = "done"
  /\ Len(commits) = 1
  /\ obs.switched
  /\ obs.rejections = 1
  /\ stack = <<>>

----------------------------------------------------------------------------
\* the running call is the retry of a fallback: the provider it uses was
\* selected as the fallback target
FallbackTargetRuns ==
  /\ pc \in {"stagedChanges", "awaitResponse", "confirm", "committing"}
  /\ stack # <<>>
  /\ stack[Len(stack)].site = "fallback"

\* C36: a provider that failed with a rate limit in this invocation is
\* never selected as the fallback target afterwards, also after the user
\* rejected the message of a fallback provider and the regeneration was
\* rate-limited as well.
C36_TriedProvidersCarried ==
  FallbackTargetRuns => provider \notin obs.limitedProviders

----------------------------------------------------------------------------
\* the number of diff lines that stand under '[File: <path>]' headers
RECURSIVE BodyLines(_)
BodyLines(allChanges) ==
  IF allChanges = <<>> THEN 0
  ELSE (IF Head(allChanges).kind = "file" THEN Len(Head(allChanges).body) ELSE 0)
       + BodyLines(Tail(allChanges))

\* C37: however many files are staged and however long their diffs are,
\* the diff lines shown under '[File: <path>]' headers in the returned text
\* are at most MAX_TOTAL_CHANGES + MAX_CHANGES_PER_FILE.
C37_BodyLinesBounded ==
  git.phase \in {"diff", "done"} =>
    BodyLines(changes(git).allChanges) <= MAX_TOTAL_CHANGES + MAX_CHANGES_PER_FILE

\* eleven diffs of 1000 lines each are shown, which is the most that can
\* be, and the twelfth file is left out
C37_Witness ==
  /\ git.phase = "done"
  /\ BodyLines(changes(git).allChanges) = MAX_TOTAL_CHANGES + MAX_CHANGES_PER_FILE
  /\ Len(git.fetched) = 11
  /\ Len(git.files) = 12

====
